---- MODULE Spec2Model ----
(***************************************************************************)
(* A model of the SDDP datagram engine (SddpSocket), its socket bindings   *)
(* and its subscriber channel (SddpDatagramSubscriber), as implemented in  *)
(* src/sddp_discovery_protocol/sddp_socket.py, of the client's search      *)
(* request (SddpSearchRequest, client.py) and of the server's responder    *)
(* (SddpServer._run_responder_task, server.py).                            *)
(*                                                                         *)
(* The engine runs on one asyncio event loop.  A coroutine runs without    *)
(* interruption until it awaits something that is not yet complete, so an  *)
(* action of this model is one such uninterrupted stretch of code: a       *)
(* protocol callback, or the part of a coroutine between two suspensions.  *)
(***************************************************************************)
EXTENDS Integers, Sequences, FiniteSets, TLC

(***************************************************************************)
(* Bounds of the model.                                                    *)
(***************************************************************************)
MaxBindings == 2
MaxSubscribers == 2
MaxDatagrams == 2
MaxRaises == 2
MaxSpaces == 2
MaxAddrs == 2
MaxResponses == 2
MaxWait == 1
MaxHandlers == 2
MaxRounds == 2

Bindings == 1..MaxBindings
Subscribers == 1..MaxSubscribers

(***************************************************************************)
(* Outcomes of a final_result future and exception values.                 *)
(***************************************************************************)
Unset == "unset"
Ok == "ok"
NoExc == "none"
OsError == "os_error"
FatalError == "fatal_error"
StartError == "start_error"
ExternalError == "external_error"
BodyError == "body_error"
Cancelled == "cancelled"
AssertionFailed == "assertion_error"

(* The queue entry None that wakes a waiting receive(). *)
NoneItem == [b |-> 0, n |-> 0]

(* The queue entry of the n-th datagram, received on binding b. *)
Datagram(b, n) == [b |-> b, n |-> n]

(* max_queue_size of subscriber s: subscriber 1 has room for one entry. *)
max_queue_size(s) == s

DatagramsOf(q) == SelectSeq(q, LAMBDA x : x # NoneItem)

(* The content of a datagram that no consumer of the model looks into. *)
Opaque == "opaque"

VARIABLES
    sddp_socket,           \* the engine: final_result and its socket bindings
    datagram_subscribers,  \* SddpSocket.datagram_subscribers
    subscriber,            \* the fields of each SddpDatagramSubscriber
    main_pc,               \* where the task that owns the engine is
    start_k,               \* the binding start() is creating a transport for
    stop_called,           \* stop() has been called
    dependents_done,       \* wait_for_dependents_done() has run
    external_called,       \* another task has called set_final_* directly
    sub_pc,                \* where the task that owns each subscriber is
    ndatagrams,            \* datagrams received so far
    obs,                   \* what each subscriber's receive() calls returned
    received,              \* the datagrams received so far, in order of arrival
    search,                \* the SddpSearchRequest and the task that owns it
    now,                   \* time.monotonic()
    probe,                 \* the argument and the result of a function applied on its own
    server                 \* the fields of the SddpServer and its three tasks

vars == <<sddp_socket, datagram_subscribers, subscriber, main_pc, start_k,
          stop_called, dependents_done, external_called, sub_pc, ndatagrams, obs,
          received, search, now, probe, server>>

(***************************************************************************)
(* SddpDatagramSubscriber.                                                 *)
(***************************************************************************)

(* asyncio.Queue.put_nowait inside try/except QueueFull: a full queue is *)
(* left as it is.                                                        *)
put_nowait(q, cap, x) == IF Len(q) < cap THEN Append(q, x) ELSE q

sub_set_final_result(sb, cap) ==
    IF sb.final_result = Unset
    THEN [sb EXCEPT !.final_result = Ok,
                    !.queue = put_nowait(sb.queue, cap, NoneItem),
                    !.eos = TRUE,
                    !.eos_exc = NoExc]
    ELSE sb

sub_set_final_exception(sb, cap, e) ==
    IF sb.final_result = Unset
    THEN [sb EXCEPT !.final_result = e,
                    !.queue = put_nowait(sb.queue, cap, NoneItem),
                    !.eos = TRUE,
                    !.eos_exc = NoExc]
    ELSE sb

(* on_datagram without its end-of-stream guard. *)
on_datagram_unguarded(sb, cap, item) ==
    [sb EXCEPT !.queue = put_nowait(sb.queue, cap, item)]

(* on_datagram putting the datagram at the head of the queue. *)
on_datagram_at_head(sb, cap, item) ==
    IF ~sb.eos /\ sb.final_result = Unset /\ Len(sb.queue) < cap
    THEN [sb EXCEPT !.queue = <<item>> \o sb.queue]
    ELSE sb

on_datagram(sb, cap, item) ==
    IF ~sb.eos /\ sb.final_result = Unset
    THEN [sb EXCEPT !.queue = put_nowait(sb.queue, cap, item)]
    ELSE sb

(* on_end_of_stream making room for the wake-up entry in a full queue. *)
on_end_of_stream_makes_room(sb, cap, exc) ==
    IF ~sb.eos /\ sb.final_result = Unset
    THEN [sb EXCEPT !.eos = TRUE,
                    !.eos_exc = exc,
                    !.queue = IF Len(sb.queue) < cap
                              THEN Append(sb.queue, NoneItem)
                              ELSE Append(Tail(sb.queue), NoneItem)]
    ELSE sb

(* on_end_of_stream not keeping the exception. *)
on_end_of_stream_forgets_error(sb, cap, exc) ==
    IF ~sb.eos /\ sb.final_result = Unset
    THEN [sb EXCEPT !.eos = TRUE,
                    !.eos_exc = NoExc,
                    !.queue = put_nowait(sb.queue, cap, NoneItem)]
    ELSE sb

on_end_of_stream(sb, cap, exc) ==
    IF ~sb.eos /\ sb.final_result = Unset
    THEN [sb EXCEPT !.eos = TRUE,
                    !.eos_exc = exc,
                    !.queue = put_nowait(sb.queue, cap, NoneItem)]
    ELSE sb

(* "await self.final_result; return None": raises the exception the future *)
(* holds, else returns None.                                               *)
await_final_result(sb) ==
    IF sb.final_result = Ok
    THEN [kind |-> "eos", item |-> NoneItem, err |-> NoExc]
    ELSE [kind |-> "raise", item |-> NoneItem, err |-> sb.final_result]

(* The subscriber completes itself from eos_exc. *)
finish_from_eos(sb, cap) ==
    IF sb.eos_exc = NoExc
    THEN sub_set_final_result(sb, cap)
    ELSE sub_set_final_exception(sb, cap, sb.eos_exc)

(* receive() from the point where queue.get() has an entry to give.  The *)
(* result is the new subscriber and what the call returned or raised.    *)
receive_after_get(sb, cap) ==
    LET x == Head(sb.queue)
        sb1 == [sb EXCEPT !.queue = Tail(sb.queue)]
    IN  IF x = NoneItem
        THEN LET sb2 == IF sb1.final_result # Unset THEN sb1
                        ELSE IF ~sb1.eos
                        THEN sub_set_final_exception(sb1, cap, AssertionFailed)
                        ELSE finish_from_eos(sb1, cap)
             IN  [sub |-> sb2, result |-> await_final_result(sb2)]
        ELSE [sub |-> sb1,
              result |-> [kind |-> "item", item |-> x, err |-> NoExc]]

(* receive() when it does not suspend. *)
receive(sb, cap) ==
    IF sb.final_result # Unset
    THEN [sub |-> sb, result |-> await_final_result(sb)]
    ELSE IF sb.eos /\ sb.queue = << >>
    THEN LET sb1 == finish_from_eos(sb, cap)
         IN  [sub |-> sb1, result |-> await_final_result(sb1)]
    ELSE receive_after_get(sb, cap)

(* receive() suspends in queue.get() exactly when it reaches it with an *)
(* empty queue.                                                         *)
receive_blocks(sb) ==
    /\ sb.final_result = Unset
    /\ ~(sb.eos /\ sb.queue = << >>)
    /\ sb.queue = << >>

(* A receive() cancelled while suspended in queue.get(). *)
receive_cancelled(sb, cap) ==
    LET sb1 == sub_set_final_exception(sb, cap, Cancelled)
    IN  [sub |-> sb1,
         result |-> [kind |-> "raise", item |-> NoneItem, err |-> Cancelled]]

(***************************************************************************)
(* SddpSocket.                                                             *)
(***************************************************************************)

(* transport.close() on binding k's transport object and                 *)
(* socket_binding.transport = None, for every binding with a transport.  *)
_close_all_transports(E) ==
    [E EXCEPT
       !.tstate = [k \in Bindings |->
                     IF k <= E.nbind /\ E.transport[k] /\ E.tstate[k] = "open"
                     THEN "closing" ELSE E.tstate[k]],
       !.transport = [k \in Bindings |-> FALSE]]

_close_all_socks(E) ==
    [E EXCEPT
       !.sock = [k \in Bindings |->
                   IF k <= E.nbind /\ E.sock[k] = "open"
                   THEN "closed" ELSE E.sock[k]]]

(* set_final_exception that closes no socket. *)
set_final_exception_leaves_socks(E, exc) ==
    IF E.final_result = Unset
    THEN _close_all_transports([E EXCEPT !.final_result = exc])
    ELSE E

set_final_exception(E, exc) ==
    IF E.final_result = Unset
    THEN _close_all_socks(_close_all_transports([E EXCEPT !.final_result = exc]))
    ELSE E

(* set_final_result without the done() test. *)
set_final_result_unguarded(E) ==
    _close_all_socks(_close_all_transports([E EXCEPT !.final_result = Ok]))

set_final_result(E) ==
    IF E.final_result = Unset
    THEN _close_all_socks(_close_all_transports([E EXCEPT !.final_result = Ok]))
    ELSE E

stop(E) == _close_all_transports(E)

(* add_subscriber / remove_subscriber on the subscriber set. *)
add_subscriber(E, subs, s) == subs \cup {s}

remove_subscriber(E, subs, s) == subs \ {s}

(* datagram_received giving up at the first subscriber whose queue is full. *)
datagram_received_stops_at_full(subs, S, item) ==
    [s \in Subscribers |->
        IF s \in subs /\ \A r \in subs : r < s => Len(S[r].queue) < max_queue_size(r)
        THEN on_datagram(S[s], max_queue_size(s), item) ELSE S[s]]

(* The loop over list(self.datagram_subscribers) in datagram_received. *)
datagram_received(subs, S, item) ==
    [s \in Subscribers |->
        IF s \in subs THEN on_datagram(S[s], max_queue_size(s), item) ELSE S[s]]

(* The loop over list(self.datagram_subscribers) in error_received and *)
(* connection_lost.                                                    *)
notify_end_of_stream(subs, S, exc) ==
    [s \in Subscribers |->
        IF s \in subs THEN on_end_of_stream(S[s], max_queue_size(s), exc) ELSE S[s]]

error_received(E, exc) == set_final_exception(E, exc)

(* connection_lost that completes the engine only when there is an error. *)
connection_lost_keeps_running(E, k, exc) ==
    LET E1 == IF exc = NoExc THEN E ELSE set_final_exception(E, exc)
    IN  [E1 EXCEPT !.transport[k] = FALSE, !.tstate[k] = "lost"]

(* SddpSocket.connection_lost followed by "self.transport = None" of *)
(* _SddpSocketProtocol.connection_lost, for binding k.               *)
connection_lost(E, k, exc) ==
    LET E1 == IF exc = NoExc THEN set_final_result(E)
                             ELSE set_final_exception(E, exc)
    IN  [E1 EXCEPT !.transport[k] = FALSE, !.tstate[k] = "lost"]

(***************************************************************************)
(* Initial state: the engine and the subscribers have been constructed.    *)
(***************************************************************************)
NewSubscriber == [queue |-> << >>, final_result |-> Unset,
                  eos |-> FALSE, eos_exc |-> NoExc]

NewObs == [got |-> << >>, eos_reported |-> FALSE, raised |-> 0,
           marked |-> FALSE, at_mark |-> << >>]

(* No SddpSearchRequest has been constructed; the clock is at its origin. *)
NewSearch == [pc |-> "none"]

NoSearch ==
    /\ search = NewSearch
    /\ now = 0

(* No function is applied on its own. *)
NoProbe == probe = [of |-> "none"]

(* No SddpServer has been constructed. *)
NoServer == server = [pc |-> "none"]

Init ==
    /\ sddp_socket = [final_result |-> Unset,
                      nbind |-> 0,
                      sock |-> [k \in Bindings |-> "none"],
                      transport |-> [k \in Bindings |-> FALSE],
                      tstate |-> [k \in Bindings |-> "none"]]
    /\ datagram_subscribers = {}
    /\ subscriber = [s \in Subscribers |-> NewSubscriber]
    /\ main_pc = "new"
    /\ start_k = 0
    /\ stop_called = FALSE
    /\ dependents_done = FALSE
    /\ external_called = FALSE
    /\ sub_pc = [s \in Subscribers |-> "idle"]
    /\ ndatagrams = 0
    /\ obs = [s \in Subscribers |-> NewObs]
    /\ received = << >>
    /\ NoSearch
    /\ NoProbe
    /\ NoServer

(***************************************************************************)
(* What the caller of receive() saw.                                       *)
(***************************************************************************)
TransportErrors == {OsError, FatalError}

(* A receive() reports end-of-stream by returning None or by raising the *)
(* error the engine ended with; a CancelledError is neither.             *)
ReportsEos(r) ==
    \/ r.kind = "eos"
    \/ r.kind = "raise" /\ r.err \in TransportErrors

Observe(o, r) ==
    [o EXCEPT
       !.got = IF r.kind = "item" THEN Append(o.got, r.item) ELSE o.got,
       !.eos_reported = o.eos_reported \/ ReportsEos(r),
       !.raised = IF r.kind = "raise" /\ r.err \in TransportErrors
                  THEN o.raised + 1 ELSE o.raised]

(* The engine has just told the subscribers about end-of-stream: remember, *)
(* for each subscriber this marked, the datagrams its queue held.          *)
ObserveMark ==
    obs' = [s \in Subscribers |->
              IF subscriber'[s].eos /\ ~subscriber[s].eos
              THEN [obs[s] EXCEPT !.marked = TRUE,
                                  !.at_mark = DatagramsOf(subscriber[s].queue)]
              ELSE obs[s]]

(***************************************************************************)
(* SddpSocket.start(), by the task that owns the engine.                   *)
(***************************************************************************)

(* The except branch of start(): set_final_exception(e), then            *)
(* wait_for_done(), which does not suspend because final_result is done, *)
(* then the error is raised again.                                       *)
StartFails(E) ==
    /\ sddp_socket' = set_final_exception(E, StartError)
    /\ dependents_done' = TRUE
    /\ main_pc' = "start_failed"
    /\ start_k' = 0

(* loop.create_datagram_endpoint(..., sock=socket_binding.sock) for       *)
(* binding k: it raises when the binding's sock is None by now or when the *)
(* loop refuses it; otherwise the transport object exists, its            *)
(* connection_made is scheduled and start() is suspended.                 *)
CreateEndpoint(E, k, ok) ==
    IF ok /\ E.sock[k] = "open"
    THEN /\ sddp_socket' = [E EXCEPT !.tstate[k] = "new"]
         /\ main_pc' = "creating"
         /\ start_k' = k
         /\ UNCHANGED dependents_done
    ELSE StartFails(E)

(* add_socket_bindings() adds n bindings and then raises or not; with no *)
(* binding start() raises; else the first endpoint is created.           *)
StartBegin(n, bindings_ok, endpoint_ok) ==
    /\ main_pc = "new"
    /\ LET E == [sddp_socket EXCEPT
                   !.nbind = n,
                   !.sock = [k \in Bindings |-> IF k <= n THEN "open" ELSE "none"]]
       IN  IF ~bindings_ok \/ n = 0
           THEN StartFails(E)
           ELSE CreateEndpoint(E, 1, endpoint_ok)
    /\ UNCHANGED <<received, datagram_subscribers, subscriber, stop_called,
                   external_called, sub_pc, ndatagrams, obs>>

(* _SddpSocketProtocol.connection_made for binding k. *)
ConnectionMade(k) ==
    /\ sddp_socket.tstate[k] = "new"
    /\ sddp_socket' = [sddp_socket EXCEPT !.transport[k] = TRUE,
                                          !.tstate[k] = "open"]
    /\ UNCHANGED <<received, datagram_subscribers, subscriber, main_pc, start_k,
                   stop_called, dependents_done, external_called, sub_pc,
                   ndatagrams, obs>>

(* start() resumes with the transport of binding start_k, stores it in the *)
(* binding, and goes on to the next binding or to finish_start().          *)
StartResume(ok) ==
    /\ main_pc = "creating"
    /\ sddp_socket.tstate[start_k] # "new"
    /\ LET E == [sddp_socket EXCEPT !.transport[start_k] = TRUE]
       IN  IF start_k < E.nbind
           THEN CreateEndpoint(E, start_k + 1, ok)
           ELSE IF ok
           THEN /\ sddp_socket' = E
                /\ main_pc' = "body"
                /\ start_k' = 0
                /\ UNCHANGED dependents_done
           ELSE StartFails(E)
    /\ UNCHANGED <<received, datagram_subscribers, subscriber, stop_called,
                   external_called, sub_pc, ndatagrams, obs>>

(***************************************************************************)
(* The body of the engine's scope, and leaving it.                         *)
(***************************************************************************)
BodyStop ==
    /\ main_pc = "body"
    /\ ~stop_called
    /\ sddp_socket' = stop(sddp_socket)
    /\ stop_called' = TRUE
    /\ UNCHANGED <<received, datagram_subscribers, subscriber, main_pc, start_k,
                   dependents_done, external_called, sub_pc, ndatagrams, obs>>

(* wait_for_done() is called and suspends on final_result. *)
BodyWait ==
    /\ main_pc = "body"
    /\ main_pc' = "waiting"
    /\ UNCHANGED <<received, sddp_socket, datagram_subscribers, subscriber, start_k,
                   stop_called, dependents_done, external_called, sub_pc,
                   ndatagrams, obs>>

(* final_result is done: wait_for_done() runs wait_for_dependents_done() *)
(* and returns or raises.                                                *)
WaitDone ==
    /\ main_pc = "waiting"
    /\ sddp_socket.final_result # Unset
    /\ dependents_done' = TRUE
    /\ main_pc' = "waited"
    /\ UNCHANGED <<received, sddp_socket, datagram_subscribers, subscriber, start_k,
                   stop_called, external_called, sub_pc, ndatagrams, obs>>

(* SddpSocket.__aexit__ with the body's exception exc (NoExc: none). *)
ScopeExit(exc) ==
    /\ main_pc \in {"body", "waited"}
    /\ main_pc = "waited" => exc = NoExc
    /\ sddp_socket' = IF exc = NoExc THEN set_final_result(sddp_socket)
                                     ELSE set_final_exception(sddp_socket, exc)
    /\ dependents_done' = TRUE
    /\ main_pc' = "exited"
    /\ UNCHANGED <<received, datagram_subscribers, subscriber, start_k, stop_called,
                   external_called, sub_pc, ndatagrams, obs>>

(* Another task completes the engine directly, as the signal task of *)
(* __main__.py does with set_final_exception.                        *)
ExternalSetFinal(exc) ==
    /\ main_pc \in {"creating", "body", "waiting"}
    /\ ~external_called
    /\ external_called' = TRUE
    /\ sddp_socket' = IF exc = NoExc THEN set_final_result(sddp_socket)
                                     ELSE set_final_exception(sddp_socket, exc)
    /\ UNCHANGED <<received, datagram_subscribers, subscriber, main_pc, start_k,
                   stop_called, dependents_done, sub_pc, ndatagrams, obs>>

(***************************************************************************)
(* Callbacks of the transport of binding k.                                *)
(***************************************************************************)

(* _SddpSocketProtocol.datagram_received: a well-formed datagram arrives on *)
(* a transport that is reading its socket.                                  *)
DatagramReceived(k) ==
    /\ sddp_socket.tstate[k] = "open"
    /\ sddp_socket.sock[k] = "open"
    /\ ndatagrams < MaxDatagrams
    /\ ndatagrams' = ndatagrams + 1
    /\ received' = Append(received, [b |-> k, content |-> Opaque])
    /\ subscriber' = datagram_received(datagram_subscribers, subscriber,
                                       Datagram(k, ndatagrams + 1))
    /\ UNCHANGED <<sddp_socket, datagram_subscribers, main_pc, start_k,
                   stop_called, dependents_done, external_called, sub_pc, obs>>

(* _SddpSocketProtocol.error_received: a send or receive raised OSError. *)
ErrorReceived(k) ==
    /\ sddp_socket.tstate[k] = "open"
    /\ subscriber' = notify_end_of_stream(datagram_subscribers, subscriber, OsError)
    /\ sddp_socket' = error_received(sddp_socket, OsError)
    /\ ObserveMark
    /\ UNCHANGED <<received, datagram_subscribers, main_pc, start_k, stop_called,
                   dependents_done, external_called, sub_pc, ndatagrams>>

(* The transport fails fatally: the loop closes it and schedules *)
(* connection_lost with the error.                               *)
TransportFails(k) ==
    /\ sddp_socket.tstate[k] = "open"
    /\ sddp_socket' = [sddp_socket EXCEPT !.tstate[k] = "failing"]
    /\ UNCHANGED <<received, datagram_subscribers, subscriber, main_pc, start_k,
                   stop_called, dependents_done, external_called, sub_pc,
                   ndatagrams, obs>>

(* _SddpSocketProtocol.connection_lost: with None after close(), with the *)
(* error after a fatal failure.                                           *)
ConnectionLost(k) ==
    /\ sddp_socket.tstate[k] \in {"closing", "failing"}
    /\ LET exc == IF sddp_socket.tstate[k] = "closing" THEN NoExc ELSE FatalError
       IN  /\ subscriber' = notify_end_of_stream(datagram_subscribers, subscriber, exc)
           /\ sddp_socket' = connection_lost(sddp_socket, k, exc)
           /\ ObserveMark
    /\ UNCHANGED <<received, datagram_subscribers, main_pc, start_k, stop_called,
                   dependents_done, external_called, sub_pc, ndatagrams>>

(***************************************************************************)
(* The task that owns subscriber s.                                        *)
(***************************************************************************)

(* SddpDatagramSubscriber.__aenter__ *)
SubEnter(s) ==
    /\ sub_pc[s] = "idle"
    /\ datagram_subscribers' = add_subscriber(sddp_socket, datagram_subscribers, s)
    /\ sub_pc' = [sub_pc EXCEPT ![s] = "active"]
    /\ UNCHANGED <<received, sddp_socket, subscriber, main_pc, start_k, stop_called,
                   dependents_done, external_called, ndatagrams, obs>>

(* receive() is called: it suspends in queue.get(), or returns or raises. *)
SubReceive(s) ==
    /\ sub_pc[s] = "active"
    /\ obs[s].raised < MaxRaises
    /\ IF receive_blocks(subscriber[s])
       THEN /\ sub_pc' = [sub_pc EXCEPT ![s] = "waiting"]
            /\ UNCHANGED <<subscriber, obs>>
       ELSE LET r == receive(subscriber[s], max_queue_size(s))
            IN  /\ subscriber' = [subscriber EXCEPT ![s] = r.sub]
                /\ obs' = [obs EXCEPT ![s] = Observe(obs[s], r.result)]
                /\ UNCHANGED sub_pc
    /\ UNCHANGED <<received, sddp_socket, datagram_subscribers, main_pc, start_k,
                   stop_called, dependents_done, external_called, ndatagrams>>

(* queue.get() has an entry for the suspended receive(). *)
SubWake(s) ==
    /\ sub_pc[s] = "waiting"
    /\ subscriber[s].queue # << >>
    /\ LET r == receive_after_get(subscriber[s], max_queue_size(s))
       IN  /\ subscriber' = [subscriber EXCEPT ![s] = r.sub]
           /\ obs' = [obs EXCEPT ![s] = Observe(obs[s], r.result)]
    /\ sub_pc' = [sub_pc EXCEPT ![s] = "active"]
    /\ UNCHANGED <<received, sddp_socket, datagram_subscribers, main_pc, start_k,
                   stop_called, dependents_done, external_called, ndatagrams>>

(* The suspended receive() is cancelled (a timeout, a cancelled task). *)
SubCancel(s) ==
    /\ sub_pc[s] = "waiting"
    /\ LET r == receive_cancelled(subscriber[s], max_queue_size(s))
       IN  /\ subscriber' = [subscriber EXCEPT ![s] = r.sub]
           /\ obs' = [obs EXCEPT ![s] = Observe(obs[s], r.result)]
    /\ sub_pc' = [sub_pc EXCEPT ![s] = "active"]
    /\ UNCHANGED <<received, sddp_socket, datagram_subscribers, main_pc, start_k,
                   stop_called, dependents_done, external_called, ndatagrams>>

(* SddpDatagramSubscriber.__aexit__ *)
SubExit(s) ==
    /\ sub_pc[s] = "active"
    /\ datagram_subscribers' = remove_subscriber(sddp_socket, datagram_subscribers, s)
    /\ subscriber' = [subscriber EXCEPT
                        ![s] = sub_set_final_result(subscriber[s], max_queue_size(s))]
    /\ sub_pc' = [sub_pc EXCEPT ![s] = "exited"]
    /\ UNCHANGED <<received, sddp_socket, main_pc, start_k, stop_called, dependents_done,
                   external_called, ndatagrams, obs>>

(* The steps of the task that owns the engine, of the loop's callbacks and *)
(* of other tasks that complete the engine.                                *)
EngineNext ==
    \/ \E n \in 0..MaxBindings, b \in BOOLEAN, e \in BOOLEAN : StartBegin(n, b, e)
    \/ \E k \in Bindings : ConnectionMade(k)
    \/ \E ok \in BOOLEAN : StartResume(ok)
    \/ BodyStop
    \/ BodyWait
    \/ WaitDone
    \/ \E exc \in {NoExc, BodyError} : ScopeExit(exc)
    \/ \E exc \in {NoExc, ExternalError} : ExternalSetFinal(exc)
    \/ \E k \in Bindings : DatagramReceived(k)
    \/ \E k \in Bindings : ErrorReceived(k)
    \/ \E k \in Bindings : TransportFails(k)
    \/ \E k \in Bindings : ConnectionLost(k)

(* The steps of the task that owns subscriber s. *)
SubscriberNext(s) ==
    \/ SubEnter(s)
    \/ SubReceive(s)
    \/ SubWake(s)
    \/ SubCancel(s)
    \/ SubExit(s)

(***************************************************************************)
(* Spec: an engine from its construction on, with one subscriber task.     *)
(***************************************************************************)
Next ==
    /\ \/ EngineNext
       \/ SubscriberNext(1)
    /\ UNCHANGED <<search, now, probe, server>>

Spec == Init /\ [][Next]_vars

(***************************************************************************)
(* ChannelSpec: an engine with one binding whose start() has succeeded,    *)
(* with every subscriber task.                                             *)
(***************************************************************************)
ChannelInit ==
    /\ sddp_socket = [final_result |-> Unset,
                      nbind |-> 1,
                      sock |-> [k \in Bindings |-> IF k = 1 THEN "open" ELSE "none"],
                      transport |-> [k \in Bindings |-> k = 1],
                      tstate |-> [k \in Bindings |-> IF k = 1 THEN "open" ELSE "none"]]
    /\ datagram_subscribers = {}
    /\ subscriber = [s \in Subscribers |-> NewSubscriber]
    /\ main_pc = "body"
    /\ start_k = 0
    /\ stop_called = FALSE
    /\ dependents_done = FALSE
    /\ external_called = FALSE
    /\ sub_pc = [s \in Subscribers |-> "idle"]
    /\ ndatagrams = 0
    /\ obs = [s \in Subscribers |-> NewObs]
    /\ received = << >>
    /\ NoSearch
    /\ NoProbe
    /\ NoServer

ChannelNext ==
    /\ \/ BodyStop
       \/ BodyWait
       \/ WaitDone
       \/ \E exc \in {NoExc, BodyError} : ScopeExit(exc)
       \/ \E exc \in {NoExc, ExternalError} : ExternalSetFinal(exc)
       \/ \E k \in Bindings : DatagramReceived(k)
       \/ \E k \in Bindings : ErrorReceived(k)
       \/ \E k \in Bindings : TransportFails(k)
       \/ \E k \in Bindings : ConnectionLost(k)
       \/ \E s \in Subscribers : SubscriberNext(s)
    /\ UNCHANGED <<search, now, probe, server>>

ChannelSpec == ChannelInit /\ [][ChannelNext]_vars

(***************************************************************************)
(* OrderSpec: an engine with every binding open, whose start() has         *)
(* succeeded, with every subscriber task.                                  *)
(***************************************************************************)
OrderInit ==
    /\ sddp_socket = [final_result |-> Unset,
                      nbind |-> MaxBindings,
                      sock |-> [k \in Bindings |-> "open"],
                      transport |-> [k \in Bindings |-> TRUE],
                      tstate |-> [k \in Bindings |-> "open"]]
    /\ datagram_subscribers = {}
    /\ subscriber = [s \in Subscribers |-> NewSubscriber]
    /\ main_pc = "body"
    /\ start_k = 0
    /\ stop_called = FALSE
    /\ dependents_done = FALSE
    /\ external_called = FALSE
    /\ sub_pc = [s \in Subscribers |-> "idle"]
    /\ ndatagrams = 0
    /\ obs = [s \in Subscribers |-> NewObs]
    /\ received = << >>
    /\ NoSearch
    /\ NoProbe
    /\ NoServer

OrderNext ==
    /\ \/ BodyStop
       \/ \E k \in Bindings : DatagramReceived(k)
       \/ \E k \in Bindings : ErrorReceived(k)
       \/ \E k \in Bindings : ConnectionLost(k)
       \/ \E s \in Subscribers : SubscriberNext(s)
    /\ UNCHANGED <<search, now, probe, server>>

OrderSpec == OrderInit /\ [][OrderNext]_vars

(***************************************************************************)
(* FairSpec: Spec on a running event loop: a scheduled connection_lost     *)
(* callback is run, and a task waiting for a future that is done resumes.  *)
(***************************************************************************)
FairSpec ==
    /\ Spec
    /\ WF_vars((\E k \in Bindings : ConnectionLost(k))
                  /\ UNCHANGED <<search, now, probe, server>>)
    /\ WF_vars(WaitDone /\ UNCHANGED <<search, now, probe, server>>)

(***************************************************************************)
(* Datagram contents: statement lines and headers, as far as the search    *)
(* request and the responder look at them.  A statement line is kept as    *)
(* its tokens; a header as its name and its raw (undecoded) value.         *)
(***************************************************************************)

(* int(s) of a regex group: the strings of digits that occur, and NoInt *)
(* for the ValueError that int("") raises.                             *)
NoInt == -1

IsDigits(s) == s \in {"", "0", "1", "2", "200", "404"}

IntOf(s) ==
    CASE s = "0"   -> 0
      [] s = "1"   -> 1
      [] s = "2"   -> 2
      [] s = "200" -> 200
      [] s = "404" -> 404
      [] OTHER     -> NoInt

(* str.lower() of a header name, as CaseInsensitiveDict applies it. *)
Lower(name) ==
    CASE name = "X" -> "x"
      [] name = "Y" -> "y"
      [] OTHER      -> name

(* A decoded header value: its Python type and its value written out. *)
PyValue(t, v) == [t |-> t, v |-> v]

NoValue == PyValue("none", "")

(* json.loads(raw) in _update_header_from_raw_header; NoValue stands for *)
(* the JSONDecodeError after which the header is left out.               *)
json_loads(raw) ==
    CASE raw = "1"     -> PyValue("int", "1")
      [] raw = "2"     -> PyValue("int", "2")
      [] raw = "\"1\"" -> PyValue("str", "1")
      [] raw = "true"  -> PyValue("bool", "1")
      [] raw = "false" -> PyValue("bool", "0")
      [] raw = "1.0"   -> PyValue("float", "1")
      [] OTHER         -> NoValue

(* Python's == on header values: a str equals only an equal str, None *)
(* only None; int, float and bool compare by their numeric value.     *)
py_eq(a, b) ==
    IF a.t \in {"str", "none"} \/ b.t \in {"str", "none"}
    THEN a = b
    ELSE a.v = b.v

(* datagram.headers.get(key, None) on the decoded headers. *)
headers_get(dg, key) ==
    IF dg.hname # "" /\ Lower(dg.hname) = Lower(key)
    THEN json_loads(dg.hraw)
    ELSE NoValue

(* _response_statement_re matching "<proto>/<major>.<minor> <code> <status>" *)
response_statement_match(dg) ==
    /\ dg.proto = "SDDP"
    /\ IsDigits(dg.major)
    /\ IsDigits(dg.minor) /\ dg.minor # ""
    /\ IsDigits(dg.code) /\ dg.code # ""
    /\ dg.status # ""

NoFilter == [set |-> FALSE, items |-> {}]

Filter(items) == [set |-> TRUE, items |-> items]

(* The test sequence of iter_responses on one received datagram: TRUE when *)
(* the datagram is yielded.                                                *)
is_yielded(dg, include_error_responses, filter_headers) ==
    /\ response_statement_match(dg)
    /\ IntOf(dg.major) # NoInt /\ IntOf(dg.minor) # NoInt /\ IntOf(dg.major) >= 1
    /\ IntOf(dg.code) # NoInt
    /\ include_error_responses \/ IntOf(dg.code) = 200
    /\ \/ ~filter_headers.set
       \/ \A f \in filter_headers.items :
              py_eq(headers_get(dg, f.name), f.value)

(* The datagrams and the search options the function is applied to. *)
Response(proto, major, minor, code, status, hname, hraw) ==
    [proto |-> proto, major |-> major, minor |-> minor, code |-> code,
     status |-> status, hname |-> hname, hraw |-> hraw]

Responses ==
    { Response(p, M, m, c, st, h[1], h[2]) :
        p \in {"SDDP", "HTTP"}, M \in {"", "0", "1", "2"}, m \in {"", "0"},
        c \in {"", "200", "404"}, st \in {"", "OK"},
        h \in {<<"", "">>} \cup
              ({"X", "x", "Y"} \X {"1", "\"1\"", "true", "1.0", "abc"}) }

FilterItem(name, value) == [name |-> name, value |-> value]

Filters ==
    {NoFilter, Filter({}),
     Filter({FilterItem("x", PyValue("int", "1"))}),
     Filter({FilterItem("X", PyValue("str", "1"))}),
     Filter({FilterItem("x", PyValue("int", "1")),
             FilterItem("y", PyValue("int", "2"))})}

(* A SEARCH request line "<verb><sp1><pattern><sp2><proto>/<major>.<minor>", *)
(* sp1 and sp2 being numbers of spaces.                                      *)
Request(verb, sp1, pattern, sp2, proto, major, minor) ==
    [verb |-> verb, sp1 |-> sp1, pattern |-> pattern, sp2 |-> sp2,
     proto |-> proto, major |-> major, minor |-> minor]

Requests ==
    { Request(v, s1, p, s2, pr, M, m) :
        v \in {"SEARCH", "NOTIFY"}, s1 \in 0..MaxSpaces, p \in {"", "*", "acme:X"},
        s2 \in 0..MaxSpaces, pr \in {"SDDP", "HTTP", "SSDP"},
        M \in {"", "0", "1", "2"}, m \in {"", "0"} }

(* The source addresses of requests. *)
Addrs == 1..MaxAddrs

(* The headers of advertise_datagram: From may be absent (""). *)
Advertisements ==
    { [From |-> f, Type |-> "acme:X"] : f \in {"", "10.0.0.9:1902"} }

(* f"{unicast_ip}:{unicast_port}" of binding k. *)
unicast_addr(k) == <<"unicast", k>>

(* _responder_req_statement_re: one or more spaces after SEARCH, a pattern *)
(* without spaces, one space, the protocol and the version.                *)
request_statement_match(rq) ==
    /\ rq.verb = "SEARCH"
    /\ rq.sp1 >= 1
    /\ rq.pattern # ""
    /\ rq.sp2 = 1
    /\ rq.proto \in {"HTTP", "SDDP"}
    /\ IsDigits(rq.major)
    /\ IsDigits(rq.minor) /\ rq.minor # ""

(* The response built from a copy of advertise_datagram. *)
responder_response(rq, k, addr, adv) ==
    [b |-> k,
     to |-> addr,
     statement |-> <<rq.proto, IntOf(rq.major), IntOf(rq.minor), 200, "OK">>,
     From |-> IF adv.From = "" THEN unicast_addr(k) ELSE <<adv.From, 0>>,
     Type |-> adv.Type]

(* The body of the responder's loop for one datagram received on binding k *)
(* from addr: the sequence of datagrams it sends.                          *)
responder_handle(rq, k, addr, adv) ==
    IF /\ request_statement_match(rq)
       /\ rq.proto \in {"HTTP", "SDDP"}
       /\ IntOf(rq.major) # NoInt /\ IntOf(rq.minor) # NoInt
       /\ IntOf(rq.major) >= 1
    THEN <<responder_response(rq, k, addr, adv)>>
    ELSE << >>

(***************************************************************************)
(* SddpSearchRequest.  Its dg_subscriber is subscriber SearchSub; the      *)
(* options not named here have the defaults of __init__                    *)
(* (include_error_responses False, filter_headers None).                   *)
(***************************************************************************)
SearchSub == MaxSubscribers

(* A response that passes every test of iter_responses and one that *)
(* fails the statement line's.                                      *)
OkResponse == Response("SDDP", "1", "0", "200", "OK", "", "")

SearchContents ==
    {OkResponse, Response("HTTP", "1", "0", "200", "OK", "", "")}

(* The request after __init__, with the bookkeeping of what its task has *)
(* seen: out is the list of responses the iteration yielded, timer the   *)
(* time wait_for's timer is set to, end the reason the iteration         *)
(* completed, error the exception that left __aenter__, the iteration or *)
(* the scope.                                                            *)
SearchRequest(max_responses, response_wait_time) ==
    [pc |-> "new",
     max_responses |-> max_responses,
     response_wait_time |-> response_wait_time,
     end_time |-> 0,
     n |-> 0,
     out |-> << >>,
     timer |-> 0,
     end |-> "none",
     error |-> NoExc,
     sends |-> 0,
     sent_unregistered |-> FALSE,
     send_failed |-> FALSE,
     err_running |-> FALSE,
     late_yields |-> 0,
     exit_at |-> 0]

(* The for loop of __aenter__ from binding k on.  sendto raises when the *)
(* binding has no transport; an OSError inside transport.sendto is       *)
(* handed to error_received and nothing is raised.  fail is the set of   *)
(* bindings whose send meets an OSError.                                 *)
RECURSIVE send_search(_, _, _, _)
send_search(st, subs, k, fail) ==
    IF k > st.E.nbind \/ st.raised # NoExc
    THEN st
    ELSE IF ~st.E.transport[k]
    THEN [st EXCEPT !.raised = AssertionFailed]
    ELSE LET st1 == [st EXCEPT !.sends = @ + 1,
                               !.unregistered = @ \/ SearchSub \notin subs]
             st2 == IF k \in fail /\ st1.E.tstate[k] = "open"
                    THEN [st1 EXCEPT
                            !.S = notify_end_of_stream(subs, st1.S, OsError),
                            !.E = error_received(st1.E, OsError),
                            !.failed = TRUE]
                    ELSE st1
         IN  send_search(st2, subs, k + 1, fail)

(* SddpDatagramSubscriber.__aexit__ as one step. *)
sub_aexit_stays_registered(subs, S, s) ==
    [subs |-> subs,
     S |-> [S EXCEPT ![s] = sub_set_final_result(S[s], max_queue_size(s))]]

sub_aexit(subs, S, s) ==
    [subs |-> remove_subscriber(0, subs, s),
     S |-> [S EXCEPT ![s] = sub_set_final_result(S[s], max_queue_size(s))]]

SendState(E, S) ==
    [E |-> E, S |-> S, raised |-> NoExc, sends |-> 0,
     unregistered |-> FALSE, failed |-> FALSE]

(* The outcome of __aenter__ given what its sends did. *)
search_entered(sr, st, subs, t) ==
    LET sr1 == [sr EXCEPT !.sends = st.sends,
                          !.sent_unregistered = st.unregistered,
                          !.send_failed = st.failed \/ st.raised # NoExc]
    IN  IF st.raised = NoExc
        THEN [E |-> st.E, subs |-> subs, S |-> st.S,
              search |-> [sr1 EXCEPT !.pc = "iterating",
                                     !.end_time = t + sr.response_wait_time]]
        ELSE LET x == sub_aexit(subs, st.S, SearchSub)
             IN  [E |-> st.E, subs |-> x.subs, S |-> x.S,
                  search |-> [sr1 EXCEPT !.pc = "enter_failed",
                                         !.error = st.raised]]

(* __aenter__ sending before it registers the subscriber. *)
search_aenter_sends_first(E, subs, S, sr, t, fail) ==
    LET st == send_search(SendState(E, S), subs, 1, fail)
    IN  search_entered(sr, st, add_subscriber(E, subs, SearchSub), t)

(* SddpSearchRequest.__aenter__ *)
search_aenter(E, subs, S, sr, t, fail) ==
    LET subs1 == add_subscriber(E, subs, SearchSub)
        st == send_search(SendState(E, S), subs1, 1, fail)
    IN  search_entered(sr, st, subs1, t)

(* iter_responses counting every datagram it looks at. *)
search_examine_counts_all(sr, dg, item, t) ==
    [sr EXCEPT !.n = @ + 1,
               !.out = IF is_yielded(dg, FALSE, NoFilter) THEN Append(@, item) ELSE @]

(* The tests of iter_responses on a datagram receive() returned, and the *)
(* yield.                                                                *)
search_examine(sr, dg, item, t) ==
    IF is_yielded(dg, FALSE, NoFilter)
    THEN [sr EXCEPT !.n = @ + 1,
                    !.out = Append(@, item),
                    !.late_yields = IF t > sr.end_time THEN @ + 1 ELSE @]
    ELSE sr

(* iter_responses after "await wait_for(receive(), remaining_time)" gave *)
(* result r: None ends the iteration, an exception leaves it, a datagram *)
(* is examined and the loop goes round.                                  *)
search_after_receive(sr, r, rcvd, t) ==
    CASE r.kind = "eos"   -> [sr EXCEPT !.pc = "done", !.end = "eos"]
      [] r.kind = "raise" -> [sr EXCEPT !.pc = "raised", !.error = r.err]
      [] r.kind = "item"  ->
            [search_examine(sr, rcvd[r.item.n].content, r.item, t)
                EXCEPT !.pc = "iterating"]

(* wait_for's timeout being the whole response_wait_time. *)
remaining_time_per_datagram(sr, t) == sr.response_wait_time

(* remaining_time = self.end_time - time.monotonic() *)
remaining_time(sr, t) == sr.end_time - t

(* The search's task is in its response iteration and neither the       *)
(* deadline nor max_responses has been reached.                         *)
SearchRunning(sr, t) ==
    /\ sr.pc \in {"iterating", "waiting"}
    /\ t < sr.end_time
    /\ sr.max_responses = 0 \/ sr.n < sr.max_responses

(* SddpSearchRequest.__aenter__: no suspension from add_subscriber to the *)
(* return or the raise.                                                   *)
SearchEnter(fail) ==
    /\ search.pc = "new"
    /\ LET x == search_aenter(sddp_socket, datagram_subscribers, subscriber,
                              search, now, fail)
       IN  /\ sddp_socket' = x.E
           /\ datagram_subscribers' = x.subs
           /\ subscriber' = x.S
           /\ search' = x.search
    /\ ObserveMark
    /\ UNCHANGED <<received, main_pc, start_k, stop_called, dependents_done,
                   external_called, sub_pc, ndatagrams, now, probe, server>>

(* One round of the while loop of iter_responses up to its await. *)
SearchStep ==
    /\ search.pc = "iterating"
    /\ IF search.max_responses > 0 /\ search.n >= search.max_responses
       THEN /\ search' = [search EXCEPT !.pc = "done", !.end = "max"]
            /\ UNCHANGED subscriber
       ELSE IF remaining_time(search, now) <= 0
       THEN /\ search' = [search EXCEPT !.pc = "done", !.end = "deadline"]
            /\ UNCHANGED subscriber
       ELSE LET sr == [search EXCEPT !.timer = now + remaining_time(search, now)]
            IN  IF receive_blocks(subscriber[SearchSub])
                THEN /\ search' = [sr EXCEPT !.pc = "waiting"]
                     /\ UNCHANGED subscriber
                ELSE LET r == receive(subscriber[SearchSub],
                                      max_queue_size(SearchSub))
                     IN  /\ subscriber' = [subscriber EXCEPT ![SearchSub] = r.sub]
                         /\ search' = search_after_receive(sr, r.result,
                                                           received, now)
    /\ UNCHANGED <<received, sddp_socket, datagram_subscribers, main_pc, start_k,
                   stop_called, dependents_done, external_called, sub_pc,
                   ndatagrams, obs, now, probe, server>>

(* queue.get() has an entry for the receive() that wait_for is waiting *)
(* for.                                                                *)
SearchWake ==
    /\ search.pc = "waiting"
    /\ subscriber[SearchSub].queue # << >>
    /\ LET r == receive_after_get(subscriber[SearchSub], max_queue_size(SearchSub))
       IN  /\ subscriber' = [subscriber EXCEPT ![SearchSub] = r.sub]
           /\ search' = search_after_receive(search, r.result, received, now)
    /\ UNCHANGED <<received, sddp_socket, datagram_subscribers, main_pc, start_k,
                   stop_called, dependents_done, external_called, sub_pc,
                   ndatagrams, obs, now, probe, server>>

(* wait_for's timer has fired: it cancels receive() and raises *)
(* TimeoutError, on which iter_responses breaks.               *)
SearchTimeout ==
    /\ search.pc = "waiting"
    /\ now >= search.end_time
    /\ LET r == receive_cancelled(subscriber[SearchSub], max_queue_size(SearchSub))
       IN  subscriber' = [subscriber EXCEPT ![SearchSub] = r.sub]
    /\ search' = [search EXCEPT !.pc = "done", !.end = "timeout"]
    /\ UNCHANGED <<received, sddp_socket, datagram_subscribers, main_pc, start_k,
                   stop_called, dependents_done, external_called, sub_pc,
                   ndatagrams, obs, now, probe, server>>

(* The search's task is cancelled while it waits: CancelledError goes    *)
(* through receive() and leaves the scope through __aexit__.             *)
SearchCancel ==
    /\ search.pc = "waiting"
    /\ LET r == receive_cancelled(subscriber[SearchSub], max_queue_size(SearchSub))
           x == sub_aexit(datagram_subscribers,
                          [subscriber EXCEPT ![SearchSub] = r.sub], SearchSub)
       IN  /\ datagram_subscribers' = x.subs
           /\ subscriber' = x.S
    /\ search' = [search EXCEPT !.pc = "exited", !.error = Cancelled,
                                !.exit_at = Len(received)]
    /\ UNCHANGED <<received, sddp_socket, main_pc, start_k, stop_called,
                   dependents_done, external_called, sub_pc, ndatagrams, obs,
                   now, probe, server>>

(* SddpSearchRequest.__aexit__: the scope is left after the iteration   *)
(* completed or raised, or from the loop body, by a break (exc NoExc)   *)
(* or by an exception of the body.                                      *)
SearchExit(exc) ==
    /\ \/ search.pc = "iterating"
       \/ search.pc = "done" /\ exc = NoExc
       \/ search.pc = "raised" /\ exc = search.error
    /\ LET x == sub_aexit(datagram_subscribers, subscriber, SearchSub)
       IN  /\ datagram_subscribers' = x.subs
           /\ subscriber' = x.S
    /\ search' = [search EXCEPT !.pc = "exited", !.error = exc,
                                !.exit_at = Len(received)]
    /\ UNCHANGED <<received, sddp_socket, main_pc, start_k, stop_called,
                   dependents_done, external_called, sub_pc, ndatagrams, obs,
                   now, probe, server>>

(* _SddpSocketProtocol.datagram_received with a datagram of content dg, *)
(* sent by a peer in answer to a SEARCH of the search request.          *)
ResponseReceived(k, dg) ==
    /\ search.sends > 0
    /\ sddp_socket.tstate[k] = "open"
    /\ sddp_socket.sock[k] = "open"
    /\ ndatagrams < MaxDatagrams
    /\ ndatagrams' = ndatagrams + 1
    /\ received' = Append(received, [b |-> k, content |-> dg])
    /\ subscriber' = datagram_received(datagram_subscribers, subscriber,
                                       Datagram(k, ndatagrams + 1))
    /\ UNCHANGED <<sddp_socket, datagram_subscribers, main_pc, start_k,
                   stop_called, dependents_done, external_called, sub_pc, obs,
                   search, now, probe, server>>

(* time.monotonic() moves on while the search is in its iteration; the  *)
(* loop may be late in running a timer that is due.                     *)
Tick ==
    /\ search.pc \in {"iterating", "waiting"}
    /\ now <= search.end_time
    /\ now' = now + 1
    /\ UNCHANGED <<sddp_socket, datagram_subscribers, subscriber, main_pc, start_k,
                   stop_called, dependents_done, external_called, sub_pc,
                   ndatagrams, obs, received, search, probe, server>>

(* A step of the engine; when it ends the engine with a transport error *)
(* while the iteration is running, the search's bookkeeping notes it.   *)
SearchEngineStep ==
    /\ \/ BodyStop
       \/ \E k \in Bindings : ErrorReceived(k)
       \/ \E k \in Bindings : TransportFails(k)
       \/ \E k \in Bindings : ConnectionLost(k)
    /\ search' = IF /\ SearchRunning(search, now)
                    /\ SearchSub \in datagram_subscribers
                    /\ sddp_socket.final_result = Unset
                    /\ sddp_socket'.final_result \in TransportErrors
                 THEN [search EXCEPT !.err_running = TRUE]
                 ELSE search
    /\ UNCHANGED <<now, probe, server>>

(***************************************************************************)
(* SearchSpec: an engine with every binding open, whose start() has        *)
(* succeeded, and one search request on it.                                *)
(***************************************************************************)
SearchInit ==
    /\ sddp_socket = [final_result |-> Unset,
                      nbind |-> MaxBindings,
                      sock |-> [k \in Bindings |-> "open"],
                      transport |-> [k \in Bindings |-> TRUE],
                      tstate |-> [k \in Bindings |-> "open"]]
    /\ datagram_subscribers = {}
    /\ subscriber = [s \in Subscribers |-> NewSubscriber]
    /\ main_pc = "body"
    /\ start_k = 0
    /\ stop_called = FALSE
    /\ dependents_done = FALSE
    /\ external_called = FALSE
    /\ sub_pc = [s \in Subscribers |-> "idle"]
    /\ ndatagrams = 0
    /\ obs = [s \in Subscribers |-> NewObs]
    /\ received = << >>
    /\ now = 0
    /\ \E k \in 0..MaxResponses, w \in 0..MaxWait : search = SearchRequest(k, w)
    /\ NoProbe
    /\ NoServer

SearchNext ==
    \/ \E fail \in SUBSET Bindings : SearchEnter(fail)
    \/ SearchStep
    \/ SearchWake
    \/ SearchTimeout
    \/ SearchCancel
    \/ \E exc \in {NoExc, BodyError} : SearchExit(exc)
    \/ \E k \in Bindings, dg \in SearchContents : ResponseReceived(k, dg)
    \/ Tick
    \/ SearchEngineStep

SearchSpec == SearchInit /\ [][SearchNext]_vars

(* SearchSpec on a running event loop with a clock that moves on: the   *)
(* search's task resumes when what it waits for is there, and a timer   *)
(* that is due is run.                                                  *)
FairSearchSpec ==
    /\ SearchSpec
    /\ WF_vars(SearchStep)
    /\ WF_vars(SearchWake)
    /\ WF_vars(SearchTimeout)
    /\ WF_vars(Tick)

(***************************************************************************)
(* FilterSpec: iter_responses' tests applied to one received datagram,     *)
(* for every datagram and every setting of the search's options.           *)
(***************************************************************************)
Constructed ==
    /\ sddp_socket = [final_result |-> Unset,
                      nbind |-> 0,
                      sock |-> [k \in Bindings |-> "none"],
                      transport |-> [k \in Bindings |-> FALSE],
                      tstate |-> [k \in Bindings |-> "none"]]
    /\ datagram_subscribers = {}
    /\ subscriber = [s \in Subscribers |-> NewSubscriber]
    /\ main_pc = "new"
    /\ start_k = 0
    /\ stop_called = FALSE
    /\ dependents_done = FALSE
    /\ external_called = FALSE
    /\ sub_pc = [s \in Subscribers |-> "idle"]
    /\ ndatagrams = 0
    /\ obs = [s \in Subscribers |-> NewObs]
    /\ received = << >>

FilterInit ==
    /\ Constructed
    /\ NoSearch
    /\ NoServer
    /\ \E dg \in Responses, inc \in BOOLEAN, f \in Filters :
           probe = [of |-> "response", dg |-> dg, include_error_responses |-> inc,
                    filter_headers |-> f, done |-> FALSE, yielded |-> FALSE]

ExamineResponse ==
    /\ probe.of = "response"
    /\ ~probe.done
    /\ probe' = [probe EXCEPT
                    !.done = TRUE,
                    !.yielded = is_yielded(probe.dg, probe.include_error_responses,
                                           probe.filter_headers)]
    /\ UNCHANGED <<sddp_socket, datagram_subscribers, subscriber, main_pc, start_k,
                   stop_called, dependents_done, external_called, sub_pc,
                   ndatagrams, obs, received, search, now, server>>

FilterNext == ExamineResponse

FilterSpec == FilterInit /\ [][FilterNext]_vars

(***************************************************************************)
(* ResponderSpec: the body of the responder's loop applied to one received *)
(* datagram, for every request line, binding, source address and           *)
(* advertisement.                                                          *)
(***************************************************************************)
ResponderInit ==
    /\ Constructed
    /\ NoSearch
    /\ NoServer
    /\ \E rq \in Requests, k \in Bindings, a \in Addrs, adv \in Advertisements :
           probe = [of |-> "request", rq |-> rq, b |-> k, addr |-> a,
                    advertise_datagram |-> adv, done |-> FALSE, sent |-> << >>]

HandleRequest ==
    /\ probe.of = "request"
    /\ ~probe.done
    /\ probe' = [probe EXCEPT
                    !.done = TRUE,
                    !.sent = responder_handle(probe.rq, probe.b, probe.addr,
                                              probe.advertise_datagram)]
    /\ UNCHANGED <<sddp_socket, datagram_subscribers, subscriber, main_pc, start_k,
                   stop_called, dependents_done, external_called, sub_pc,
                   ndatagrams, obs, received, search, now, server>>

ResponderNext == HandleRequest

ResponderSpec == ResponderInit /\ [][ResponderNext]_vars

(***************************************************************************)
(* SddpServer.  Its collector reads subscriber 1 and its responder         *)
(* subscriber 2.  A task is "created" until the loop first runs it,        *)
(* "waiting" in receive() or in the advertiser's interval wait, "handler"  *)
(* inside a notify handler, and then "returned", "failed" or "cancelled";  *)
(* "running" is a task between two suspensions, inside one step.           *)
(***************************************************************************)
Tasks == {"collector", "responder", "advertiser"}

Terminal == {"returned", "failed", "cancelled"}

HandlerError == "handler_error"

(* The subscriber each receiving task creates. *)
ServerSub == [collector |-> 1, responder |-> MaxSubscribers]

(* The order in which wait_for_dependents_done cancels and awaits. *)
DependentTasks == <<"collector", "advertiser", "responder">>

(* SddpServer.__init__ with nh notify handlers added before the start: *)
(* task is the state of each asyncio task, ref whether the server's    *)
(* attribute holds it, cancel the tasks with a cancellation pending,   *)
(* seen the datagrams receive() gave to the collector, cur the          *)
(* advertisement and the handler the collector is in, calls the        *)
(* handler invocations so far, sent and advertised the responses and   *)
(* the advertisements given to sendto,                                 *)
(* wfd the place of wait_for_dependents_done, raised what left the     *)
(* server's scope.                                                     *)
SddpServer(respond_to_queries, advertise_interval, adv, nh) ==
    [pc |-> "constructed",
     respond_to_queries |-> respond_to_queries,
     advertise_interval |-> advertise_interval,
     advertise_datagram |-> [statement |-> "NOTIFY ALIVE SDDP/1.0",
                             From |-> adv.From, Type |-> adv.Type],
     notify_handlers |-> [i \in 1..nh |-> i - 1],
     i_next_notify_handler |-> nh,
     task |-> [t \in Tasks |-> "none"],
     ref |-> [t \in Tasks |-> FALSE],
     err |-> [t \in Tasks |-> NoExc],
     cancel |-> {},
     seen |-> << >>,
     cur |-> [n |-> 0, h |-> 0],
     calls |-> << >>,
     sent |-> {},
     advertised |-> {},
     rounds |-> 0,
     wfd |-> 0,
     after |-> "",
     raised |-> NoExc]

(* SddpServer.finish_start *)
finish_start(sv) ==
    [sv EXCEPT
       !.pc = "started",
       !.task = [t \in Tasks |->
                   IF t = "advertiser" /\ ~(sv.advertise_interval > 0)
                   THEN "none" ELSE "created"],
       !.ref = [t \in Tasks |-> t # "advertiser" \/ sv.advertise_interval > 0]]

(* The tests of the collector's loop on a received datagram: TRUE when *)
(* the notify handlers are called.                                     *)
collector_accepts(dg) ==
    /\ "verb" \in DOMAIN dg
    /\ dg.verb = "NOTIFY"
    /\ dg.sp1 >= 1
    /\ dg.pattern = "ALIVE"
    /\ dg.sp2 >= 1
    /\ dg.proto = "SDDP"
    /\ IsDigits(dg.major)
    /\ IsDigits(dg.minor) /\ dg.minor # ""
    /\ IntOf(dg.major) # NoInt /\ IntOf(dg.minor) # NoInt
    /\ IntOf(dg.major) >= 1

(* The collector going through its handlers from the last one registered. *)
call_handler_reversed(sv, n, h) ==
    IF h <= Len(sv.notify_handlers)
    THEN [sv EXCEPT !.task.collector = "handler",
                    !.cur = [n |-> n, h |-> h],
                    !.calls = Append(@, [handler |-> sv.notify_handlers[
                                             Len(sv.notify_handlers) + 1 - h],
                                         n |-> n])]
    ELSE [sv EXCEPT !.task.collector = "running",
                    !.cur = [n |-> 0, h |-> 0]]

(* The collector calls the handler at position h for advertisement n, or *)
(* goes back to its loop when there is none left.                        *)
call_handler(sv, n, h) ==
    IF h <= Len(sv.notify_handlers)
    THEN [sv EXCEPT !.task.collector = "handler",
                    !.cur = [n |-> n, h |-> h],
                    !.calls = Append(@, [handler |-> sv.notify_handlers[h],
                                         n |-> n])]
    ELSE [sv EXCEPT !.task.collector = "running",
                    !.cur = [n |-> 0, h |-> 0]]

(* The body of the collector's loop for queue entry item. *)
collector_body(sv, E, rcvd, item) ==
    LET sv1 == [sv EXCEPT !.seen = Append(@, item.n)]
    IN  IF collector_accepts(rcvd[item.n].content)
        THEN call_handler(sv1, item.n, 1)
        ELSE [sv1 EXCEPT !.task.collector = "running"]

(* A copy that shares the header dictionaries of d. *)
datagram_copy_shared(heap, d) == [heap |-> heap, dg |-> d]

(* SddpDatagram.copy: heap is the header dictionaries in existence, d a   *)
(* datagram, its headers the place of its dictionaries in heap.  The copy *)
(* has the statement of d and new dictionaries with the entries of d's.   *)
datagram_copy(heap, d) ==
    [heap |-> Append(heap, heap[d.headers]),
     dg |-> [statement |-> d.statement, headers |-> Len(heap) + 1]]

(* advertise_datagram after one emission from it: the emission takes a *)
(* copy and writes From into the copy's headers when it has none.      *)
after_emission(adv, from) ==
    LET c == datagram_copy(<<[From |-> <<adv.From, 0>>, Type |-> adv.Type]>>,
                           [statement |-> adv.statement, headers |-> 1])
        h == c.dg.headers
        heap == IF c.heap[h].From[1] = ""
                THEN [c.heap EXCEPT ![h].From = from]
                ELSE c.heap
    IN  [statement |-> adv.statement,
         From |-> heap[1].From[1],
         Type |-> heap[1].Type]

(* The body of the responder's loop for queue entry item: the response is *)
(* a copy of advertise_datagram, and sendto asserts that the binding has  *)
(* a transport.                                                           *)
responder_body(sv, E, rcvd, item) ==
    LET dg == rcvd[item.n].content
        out == IF "verb" \in DOMAIN dg
               THEN responder_handle(dg, item.b, 1, sv.advertise_datagram)
               ELSE << >>
        sv1 == [sv EXCEPT !.advertise_datagram =
                              after_emission(@, unicast_addr(item.b))]
    IN  IF out = << >>
        THEN [sv EXCEPT !.task.responder = "running"]
        ELSE IF E.transport[item.b]
        THEN [sv1 EXCEPT !.task.responder = "running",
                         !.sent = @ \cup {[n |-> item.n, dg |-> out[1]]}]
        ELSE [sv1 EXCEPT !.task.responder = "failed",
                         !.err.responder = AssertionFailed]

(* One round of the receiving task t from its call of receive(), which   *)
(* gave r: the loop's body for a datagram, the end of the loop and the   *)
(* subscriber's __aexit__ otherwise.  The result is the server and the   *)
(* subscribers.                                                          *)
receiver_after_receive(sv, E, subs, S, rcvd, t, r) ==
    LET s == ServerSub[t]
        S1 == [S EXCEPT ![s] = r.sub]
        sv1 == IF r.result.kind # "item"
               THEN [sv EXCEPT
                       !.task[t] = IF r.result.kind = "eos" THEN "returned"
                                   ELSE "failed",
                       !.err[t] = r.result.err]
               ELSE IF t = "collector"
               THEN collector_body(sv, E, rcvd, r.result.item)
               ELSE responder_body(sv, E, rcvd, r.result.item)
    IN  IF sv1.task[t] \in Terminal
        THEN LET x == sub_aexit(subs, S1, s)
             IN  [server |-> sv1, subs |-> x.subs, S |-> x.S]
        ELSE [server |-> sv1, subs |-> subs, S |-> S1]

(* The receiving task t from a call of receive() to its next suspension *)
(* or to its end: receive() does not suspend while the queue has an     *)
(* entry, so the loop goes round.                                       *)
RECURSIVE receiver_run(_, _, _, _, _, _)
receiver_run(sv, E, subs, S, rcvd, t) ==
    LET s == ServerSub[t]
    IN  IF receive_blocks(S[s])
        THEN [server |-> [sv EXCEPT !.task[t] = "waiting"], subs |-> subs, S |-> S]
        ELSE LET x == receiver_after_receive(sv, E, subs, S, rcvd, t,
                                             receive(S[s], max_queue_size(s)))
             IN  IF x.server.task[t] = "running"
                 THEN receiver_run(x.server, E, x.subs, x.S, rcvd, t)
                 ELSE x

(* An emission whose From is that of the first binding. *)
advertisement_from_first_binding(adv, k, r) ==
    [b |-> k,
     to |-> 0,
     round |-> r,
     statement |-> adv.statement,
     From |-> IF adv.From = "" THEN unicast_addr(1) ELSE <<adv.From, 0>>,
     Type |-> adv.Type]

(* One emission of the advertiser on binding k in round r: a copy of *)
(* advertise_datagram with From filled in when it has none.          *)
advertisement(adv, k, r) ==
    [b |-> k,
     to |-> 0,
     round |-> r,
     statement |-> adv.statement,
     From |-> IF adv.From = "" THEN unicast_addr(k) ELSE <<adv.From, 0>>,
     Type |-> adv.Type]

(* The advertiser's for loop from binding k on: one emission per binding, *)
(* up to the first binding without a transport, whose sendto fails its    *)
(* assertion.                                                             *)
RECURSIVE advertiser_round(_, _, _)
advertiser_round(sv, E, k) ==
    IF k > E.nbind
    THEN [sv EXCEPT !.rounds = @ + 1, !.task.advertiser = "waiting"]
    ELSE LET sv1 == [sv EXCEPT !.advertise_datagram =
                                   after_emission(@, unicast_addr(k))]
         IN  IF E.transport[k]
             THEN advertiser_round(
                      [sv1 EXCEPT !.advertised =
                           @ \cup {advertisement(sv.advertise_datagram, k,
                                                 sv.rounds + 1)}],
                      E, k + 1)
             ELSE [sv1 EXCEPT !.rounds = @ + 1,
                              !.task.advertiser = "failed",
                              !.err.advertiser = AssertionFailed]

(* The advertiser's loop without its test of final_result. *)
advertiser_loop_no_test(sv, E) == advertiser_round(sv, E, 1)

(* The advertiser from the test of its while loop to its next suspension. *)
advertiser_loop(sv, E) ==
    IF E.final_result # Unset
    THEN [sv EXCEPT !.task.advertiser = "returned"]
    ELSE advertiser_round(sv, E, 1)

(* wait_for_dependents_done cancelling the tasks without awaiting them. *)
wait_for_dependents_done_no_await(sv, i) ==
    [sv EXCEPT
       !.cancel = @ \cup {t \in Tasks : sv.ref[t] /\ sv.task[t] \notin Terminal},
       !.ref = [t \in Tasks |-> FALSE],
       !.wfd = 0]

(* SddpServer.wait_for_dependents_done from its i-th task on: cancel() *)
(* and await for each task the server holds; the await suspends while  *)
(* the task has not ended (wfd = i), and wfd = 0 when it has returned. *)
RECURSIVE wait_for_dependents_done(_, _)
wait_for_dependents_done(sv, i) ==
    IF i > Len(DependentTasks)
    THEN [sv EXCEPT !.wfd = 0]
    ELSE LET t == DependentTasks[i]
         IN  IF ~sv.ref[t]
             THEN wait_for_dependents_done(sv, i + 1)
             ELSE IF sv.task[t] \in Terminal
             THEN wait_for_dependents_done([sv EXCEPT !.ref[t] = FALSE], i + 1)
             ELSE [sv EXCEPT !.cancel = @ \cup {t}, !.wfd = i]

(* SddpSocket.__aexit__ with the body's exception exc: the engine after *)
(* set_final_*, and what leaves the scope: "except Exception" does not  *)
(* catch a CancelledError raised by wait_for_done, and False makes the  *)
(* body's exception go on.                                              *)
aexit(E, exc) ==
    LET E1 == IF exc = NoExc THEN set_final_result(E)
                             ELSE set_final_exception(E, exc)
    IN  [E |-> E1,
         raised |-> IF E1.final_result = Cancelled THEN Cancelled ELSE exc]

(***************************************************************************)
(* A server whose start() has succeeded, so that finish_start has created  *)
(* its tasks; the datagrams it receives.                                   *)
(***************************************************************************)
ServerContents ==
    {Request("SEARCH", 1, "*", 1, "SDDP", "1", "0"),
     Request("NOTIFY", 1, "ALIVE", 1, "SDDP", "1", "0")}

(* Statement lines for the collector: several spaces and major version 2, *)
(* major version 0, and a response.                                       *)
NotifyContents ==
    {Request("NOTIFY", MaxSpaces, "ALIVE", MaxSpaces, "SDDP", "2", "0"),
     Request("NOTIFY", 1, "ALIVE", 1, "SDDP", "0", "0"),
     OkResponse}

(* The engine after a start() that created n bindings, in the body of *)
(* its scope.                                                         *)
Started(n) ==
    /\ sddp_socket = [final_result |-> Unset,
                      nbind |-> n,
                      sock |-> [k \in Bindings |-> IF k <= n THEN "open" ELSE "none"],
                      transport |-> [k \in Bindings |-> k <= n],
                      tstate |-> [k \in Bindings |-> IF k <= n THEN "open" ELSE "none"]]
    /\ datagram_subscribers = {}
    /\ subscriber = [s \in Subscribers |-> NewSubscriber]
    /\ main_pc = "body"
    /\ start_k = 0
    /\ stop_called = FALSE
    /\ dependents_done = FALSE
    /\ external_called = FALSE
    /\ sub_pc = [s \in Subscribers |-> "idle"]
    /\ ndatagrams = 0
    /\ obs = [s \in Subscribers |-> NewObs]
    /\ received = << >>
    /\ NoSearch
    /\ NoProbe

ServerInit ==
    /\ Started(MaxBindings)
    /\ \E rq \in BOOLEAN, ai \in {0, 1}, adv \in Advertisements,
          nh \in 0..MaxHandlers :
           server = finish_start(SddpServer(rq, ai, adv, nh))

(* _SddpSocketProtocol.datagram_received with a datagram of content dg. *)
ServerDatagramReceived(k, dg) ==
    /\ sddp_socket.tstate[k] = "open"
    /\ sddp_socket.sock[k] = "open"
    /\ ndatagrams < MaxDatagrams
    /\ ndatagrams' = ndatagrams + 1
    /\ received' = Append(received, [b |-> k, content |-> dg])
    /\ subscriber' = datagram_received(datagram_subscribers, subscriber,
                                       Datagram(k, ndatagrams + 1))
    /\ UNCHANGED <<sddp_socket, datagram_subscribers, main_pc, start_k,
                   stop_called, dependents_done, external_called, sub_pc, obs,
                   search, now, probe, server>>

(* The receiving task t can run: for the first time, or because its *)
(* queue has an entry.                                              *)
ReceiverReady(t) ==
    /\ t \notin server.cancel
    /\ \/ server.task[t] = "created"
       \/ server.task[t] = "waiting" /\ subscriber[ServerSub[t]].queue # << >>

(* The loop runs the receiving task t, the first time into the *)
(* subscriber's scope.                                         *)
ReceiverRuns(t) ==
    LET s == ServerSub[t]
        subs == IF server.task[t] = "created"
                THEN add_subscriber(sddp_socket, datagram_subscribers, s)
                ELSE datagram_subscribers
        x == receiver_run(server, sddp_socket, subs, subscriber, received, t)
    IN  /\ ReceiverReady(t)
        /\ server' = x.server
        /\ datagram_subscribers' = x.subs
        /\ subscriber' = x.S
        /\ UNCHANGED <<sddp_socket, main_pc, start_k, stop_called, dependents_done,
                       external_called, sub_pc, ndatagrams, obs, received,
                       search, now, probe>>

(* The collector awaits a notify handler. *)
HandlerPending ==
    server.task.collector = "handler" /\ "collector" \notin server.cancel

(* The notify handler the collector awaits returns, or raises. *)
HandlerDone(raises) ==
    /\ HandlerPending
    /\ IF raises
       THEN LET x == sub_aexit(datagram_subscribers, subscriber,
                               ServerSub.collector)
            IN  /\ server' = [server EXCEPT !.task.collector = "failed",
                                            !.err.collector = HandlerError]
                /\ datagram_subscribers' = x.subs
                /\ subscriber' = x.S
       ELSE LET sv == call_handler(server, server.cur.n, server.cur.h + 1)
                x == IF sv.task.collector = "running"
                     THEN receiver_run(sv, sddp_socket, datagram_subscribers,
                                       subscriber, received, "collector")
                     ELSE [server |-> sv, subs |-> datagram_subscribers,
                           S |-> subscriber]
            IN  /\ server' = x.server
                /\ datagram_subscribers' = x.subs
                /\ subscriber' = x.S
    /\ UNCHANGED <<sddp_socket, main_pc, start_k, stop_called, dependents_done,
                   external_called, sub_pc, ndatagrams, obs, received,
                   search, now, probe>>

(* The loop runs the advertiser: for the first time, when the timer of *)
(* its wait_for fires, or when final_result is done.                   *)
AdvertiserRuns(timeout) ==
    /\ "advertiser" \notin server.cancel
    /\ \/ server.task.advertiser = "created" /\ ~timeout
       \/ /\ server.task.advertiser = "waiting"
          /\ IF timeout
             THEN sddp_socket.final_result = Unset /\ server.rounds < MaxRounds
             ELSE sddp_socket.final_result # Unset
    /\ server' = advertiser_loop(server, sddp_socket)
    /\ UNCHANGED <<sddp_socket, datagram_subscribers, subscriber, main_pc, start_k,
                   stop_called, dependents_done, external_called, sub_pc,
                   ndatagrams, obs, received, search, now, probe>>

(* Task t has a cancel() pending and is at a suspension point. *)
CancelPending(t) ==
    t \in server.cancel /\ server.task[t] \in {"created", "waiting", "handler"}

(* Task t is resumed with the CancelledError of a pending cancel(): a task *)
(* not yet run ends at once; receive() and a handler let it through, so    *)
(* the subscriber's scope is left; the advertiser's bare except takes it   *)
(* and the while loop goes on.                                             *)
TaskCancelled(t) ==
    /\ CancelPending(t)
    /\ LET sv == [server EXCEPT !.cancel = @ \ {t}]
       IN  IF server.task[t] = "created"
           THEN /\ server' = [sv EXCEPT !.task[t] = "cancelled"]
                /\ UNCHANGED <<datagram_subscribers, subscriber>>
           ELSE IF t = "advertiser"
           THEN /\ server' = advertiser_loop(sv, sddp_socket)
                /\ UNCHANGED <<datagram_subscribers, subscriber>>
           ELSE LET s == ServerSub[t]
                    S1 == IF server.task[t] = "waiting"
                          THEN [subscriber EXCEPT
                                  ![s] = receive_cancelled(subscriber[s],
                                                           max_queue_size(s)).sub]
                          ELSE subscriber
                    x == sub_aexit(datagram_subscribers, S1, s)
                IN  /\ server' = [sv EXCEPT !.task[t] = "cancelled"]
                    /\ datagram_subscribers' = x.subs
                    /\ subscriber' = x.S
    /\ UNCHANGED <<sddp_socket, main_pc, start_k, stop_called, dependents_done,
                   external_called, sub_pc, ndatagrams, obs, received,
                   search, now, probe>>

(* The owner's task goes on with wait_for_dependents_done in state sv. *)
OwnerContinues(sv) ==
    /\ server' = sv
    /\ main_pc' = IF sv.wfd = 0 THEN sv.after ELSE "dependents"
    /\ dependents_done' = (dependents_done \/ sv.wfd = 0)

(* wait_for_done() called in the body: final_result is done, its finally *)
(* clause runs.                                                          *)
ServerWaitDone ==
    /\ main_pc = "waiting"
    /\ sddp_socket.final_result # Unset
    /\ OwnerContinues(wait_for_dependents_done(
                          [server EXCEPT !.after = "waited"], 1))
    /\ UNCHANGED <<sddp_socket, datagram_subscribers, subscriber, start_k,
                   stop_called, external_called, sub_pc, ndatagrams, obs,
                   received, search, now, probe>>

(* The owner's task is cancelled while it awaits final_result in        *)
(* wait_for_done(): the future it awaits is cancelled with it, and the  *)
(* finally clause runs.                                                 *)
OwnerCancelled ==
    /\ main_pc = "waiting"
    /\ sddp_socket.final_result = Unset
    /\ sddp_socket' = [sddp_socket EXCEPT !.final_result = Cancelled]
    /\ OwnerContinues(wait_for_dependents_done(
                          [server EXCEPT !.after = "waited"], 1))
    /\ UNCHANGED <<datagram_subscribers, subscriber, start_k,
                   stop_called, external_called, sub_pc, ndatagrams, obs,
                   received, search, now, probe>>

(* The task wait_for_dependents_done awaits has ended. *)
DependentsResume ==
    /\ main_pc = "dependents"
    /\ server.task[DependentTasks[server.wfd]] \in Terminal
    /\ OwnerContinues(wait_for_dependents_done(server, server.wfd))
    /\ UNCHANGED <<sddp_socket, datagram_subscribers, subscriber, start_k,
                   stop_called, external_called, sub_pc, ndatagrams, obs,
                   received, search, now, probe>>

(* The server's scope is left with the body's exception exc: what       *)
(* wait_for_done() raised when the body was in it, else what the body   *)
(* raised itself.                                                       *)
ServerScopeExit(exc) ==
    /\ \/ main_pc = "body" /\ exc \in {NoExc, BodyError}
       \/ /\ main_pc = "waited"
          /\ exc = IF sddp_socket.final_result = Ok THEN NoExc
                   ELSE sddp_socket.final_result
    /\ LET x == aexit(sddp_socket, exc)
       IN  /\ sddp_socket' = x.E
           /\ OwnerContinues(wait_for_dependents_done(
                                 [server EXCEPT !.after = "exited",
                                                !.raised = x.raised,
                                                !.pc = "left"], 1))
    /\ UNCHANGED <<datagram_subscribers, subscriber, start_k,
                   stop_called, external_called, sub_pc, ndatagrams, obs,
                   received, search, now, probe>>

(***************************************************************************)
(* ServerSpec: the three tasks at work on a running engine.                *)
(***************************************************************************)
ServerNext ==
    \/ \E k \in Bindings, dg \in ServerContents \cup NotifyContents :
          ServerDatagramReceived(k, dg)
    \/ \E t \in {"collector", "responder"} : ReceiverRuns(t)
    \/ \E raises \in BOOLEAN : HandlerDone(raises)
    \/ \E timeout \in BOOLEAN : AdvertiserRuns(timeout)

ServerSpec == ServerInit /\ [][ServerNext]_vars

(***************************************************************************)
(* ShutdownSpec: a server with one binding and one notify handler, from    *)
(* the body of its scope to the end of the scope, with the engine's ways   *)
(* of ending.                                                              *)
(***************************************************************************)
ShutdownInit ==
    /\ Started(1)
    /\ \E ai \in {0, 1}, adv \in {a \in Advertisements : a.From = ""} :
           server = finish_start(SddpServer(TRUE, ai, adv, 1))

ShutdownSteps ==
    \/ \E dg \in ServerContents : ServerDatagramReceived(1, dg)
    \/ \E t \in {"collector", "responder"} : ReceiverRuns(t)
    \/ \E raises \in BOOLEAN : HandlerDone(raises)
    \/ \E timeout \in BOOLEAN : AdvertiserRuns(timeout)
    \/ \E t \in Tasks : TaskCancelled(t)
    \/ ServerWaitDone
    \/ OwnerCancelled
    \/ DependentsResume
    \/ \E exc \in {NoExc, BodyError, OsError, Cancelled} : ServerScopeExit(exc)
    \/ (BodyStop \/ BodyWait) /\ UNCHANGED <<search, now, probe, server>>
    \/ \E k \in Bindings :
          ConnectionLost(k) /\ UNCHANGED <<search, now, probe, server>>

(* The same with transport errors. *)
ShutdownNext ==
    \/ ShutdownSteps
    \/ \E k \in Bindings :
          ErrorReceived(k) /\ UNCHANGED <<search, now, probe, server>>

ShutdownSpec == ShutdownInit /\ [][ShutdownNext]_vars

(* The server on a running event loop, its transports reporting no       *)
(* error: a task that can run is run, a handler that was called returns  *)
(* or raises, a scheduled connection_lost callback is run.               *)
(* ReceiverReady, HandlerPending and CancelPending are the enabling      *)
(* conditions of their actions, each of which changes the server, so     *)
(* that the last three conjuncts are the weak fairness of these actions. *)
FairShutdownSpec ==
    /\ ShutdownInit /\ [][ShutdownSteps]_vars
    /\ WF_vars(ServerWaitDone)
    /\ WF_vars(DependentsResume)
    /\ WF_vars(\E timeout \in BOOLEAN : AdvertiserRuns(timeout))
    /\ WF_vars((\E k \in Bindings : ConnectionLost(k))
                  /\ UNCHANGED <<search, now, probe, server>>)
    /\ \A t \in {"collector", "responder"} :
          \/ []<>(~ReceiverReady(t))
          \/ []<><<ReceiverRuns(t)>>_vars
    /\ \/ []<>(~HandlerPending)
       \/ []<><<\E raises \in BOOLEAN : HandlerDone(raises)>>_vars
    /\ \A t \in Tasks :
          \/ []<>(~CancelPending(t))
          \/ []<><<TaskCancelled(t)>>_vars

(***************************************************************************)
(* SddpDatagram.  Bytes are sequences of tokens: a carriage return, a line *)
(* feed, a piece of text without either, or the line encode_http_header    *)
(* makes of a header name and a raw value, which the header parser reads   *)
(* back as that name and that value (short ASCII names and values).  A     *)
(* CaseInsensitiveDict maps the lower-cased name to the name as last set   *)
(* and to the value.                                                       *)
(***************************************************************************)
Token(t, k, v) == [t |-> t, k |-> k, v |-> v]

CR == Token("cr", "", "")

LF == Token("lf", "", "")

CRLF == <<CR, LF>>

(* name.encode() + b': ' + value + b'\r\n' *)
encode_http_header(name, value) == <<Token("hdr", name, value)>> \o CRLF

(* data without the b'\r' it ends with, if any. *)
strip_cr(data) ==
    IF data # << >> /\ data[Len(data)] = CR
    THEN SubSeq(data, 1, Len(data) - 1)
    ELSE data

(* bytes.find: the first place of delim in data, 0 when there is none. *)
find(data, delim) ==
    LET at == {i \in 1..(Len(data) - Len(delim) + 1) :
                  SubSeq(data, i, i + Len(delim) - 1) = delim}
    IN  IF at = {} THEN 0 ELSE CHOOSE i \in at : \A j \in at : i <= j

(* split_bytes_at_lf_or_crlf(data, 1): the parts, one when data has no *)
(* line feed.                                                          *)
split_bytes_at_lf_or_crlf(data) ==
    LET i == find(data, <<LF>>)
    IN  IF i = 0
        THEN <<data>>
        ELSE <<strip_cr(SubSeq(data, 1, i - 1)), SubSeq(data, i + 1, Len(data))>>

(* split_headers_and_body: data up to the first b'\n\r\n' or b'\n\n', and *)
(* what follows it.                                                       *)
split_headers_and_body(data) ==
    LET i1 == find(data, <<LF, CR, LF>>)
        i2 == find(data, <<LF, LF>>)
        first_i == IF i1 = 0 THEN i2
                   ELSE IF i2 = 0 \/ i1 < i2 THEN i1 ELSE i2
        first_nb == IF first_i = i1 THEN 3 ELSE 2
    IN  IF first_i = 0
        THEN [headers |-> data, body |-> << >>]
        ELSE [headers |-> strip_cr(SubSeq(data, 1, first_i - 1)),
              body |-> SubSeq(data, first_i + first_nb, Len(data))]

(* An empty CaseInsensitiveDict, dct[name] = value, dct.pop(name, None) *)
(* and the == of two of them, which compares the lower-cased names and  *)
(* the values.                                                          *)
EmptyDict == [l \in {} |-> [key |-> "", val |-> ""]]

dict_set(dct, name, value) ==
    [l \in DOMAIN dct \cup {Lower(name)} |->
        IF l = Lower(name) THEN [key |-> name, val |-> value] ELSE dct[l]]

dict_pop(dct, name) == [l \in DOMAIN dct \ {Lower(name)} |-> dct[l]]

dict_eq(a, b) ==
    /\ DOMAIN a = DOMAIN b
    /\ \A l \in DOMAIN a : a[l].val = b[l].val

(* The lines of the header block data, their line ends removed. *)
RECURSIVE header_lines(_)
header_lines(data) ==
    LET i == find(data, <<LF>>)
    IN  IF i = 0
        THEN IF data = << >> THEN << >> ELSE <<data>>
        ELSE <<strip_cr(SubSeq(data, 1, i - 1))>>
                 \o header_lines(SubSeq(data, i + 1, Len(data)))

(* BytesHeaderParser on lines, from line i with the headers dct read so *)
(* far: the headers end at the first line that is not a header line.    *)
RECURSIVE parse_header_lines(_, _, _)
parse_header_lines(lines, i, dct) ==
    IF i > Len(lines) \/ Len(lines[i]) # 1 \/ lines[i][1].t # "hdr"
    THEN dct
    ELSE parse_header_lines(lines, i + 1,
                            dict_set(dct, lines[i][1].k, lines[i][1].v))

(* parse_http_headers *)
parse_http_headers(data) ==
    LET x == split_headers_and_body(data)
    IN  [headers |-> parse_header_lines(header_lines(x.headers), 1, EmptyDict),
         body |-> x.body]

(* json.dumps(value) in _set_header_no_rebuild. *)
json_dumps(value) ==
    CASE value = PyValue("int", "1")  -> "1"
      [] value = PyValue("int", "2")  -> "2"
      [] value = PyValue("str", "1")  -> "\"1\""
      [] value = PyValue("bool", "1") -> "true"
      [] value = PyValue("bool", "0") -> "false"
      [] OTHER                        -> "null"

(* None given as a raw header value. *)
NoRaw == "None"

(* Python's order of the header names, as sorted() applies it. *)
KeyRank(name) ==
    CASE name = "X" -> 1
      [] name = "Y" -> 2
      [] name = "x" -> 3
      [] OTHER      -> 4

(* sorted(names) *)
RECURSIVE sorted(_)
sorted(names) ==
    IF names = {}
    THEN << >>
    ELSE LET k == CHOOSE n \in names : \A m \in names : KeyRank(n) <= KeyRank(m)
         IN  <<k>> \o sorted(names \ {k})

(* The lines _rebuild_raw_data makes of the raw headers dct, for the *)
(* names keys in their order.                                        *)
RECURSIVE encode_headers(_, _)
encode_headers(dct, keys) ==
    IF keys = << >>
    THEN << >>
    ELSE encode_http_header(keys[1], dct[Lower(keys[1])].val)
             \o encode_headers(dct, Tail(keys))

(* SddpDatagram._rebuild_raw_data *)
_rebuild_raw_data(d) ==
    [d EXCEPT !.raw_data =
        d.statement_line
          \o (IF d.statement_line # << >> THEN CRLF ELSE << >>)
          \o encode_headers(d.raw_headers,
                            sorted({d.raw_headers[l].key :
                                       l \in DOMAIN d.raw_headers}))
          \o (IF d.body # << >> THEN CRLF \o d.body ELSE << >>)]

(* SddpDatagram._rebuild_headers *)
_rebuild_headers(d) ==
    [d EXCEPT !.headers =
        [l \in {m \in DOMAIN d.raw_headers :
                   json_loads(d.raw_headers[m].val) # NoValue} |->
            [key |-> d.raw_headers[l].key,
             val |-> json_loads(d.raw_headers[l].val)]]]

(* SddpDatagram._update_header_from_raw_header *)
_update_header_from_raw_header(d, name, value) ==
    IF json_loads(value) # NoValue
    THEN [d EXCEPT !.headers = dict_set(@, name, json_loads(value))]
    ELSE [d EXCEPT !.headers = dict_pop(@, name)]

(* SddpDatagram._del_header_no_rebuild *)
_del_header_no_rebuild(d, name) ==
    [d EXCEPT !.headers = dict_pop(@, name),
              !.raw_headers = dict_pop(@, name)]

(* SddpDatagram._set_raw_header_no_rebuild *)
_set_raw_header_no_rebuild(d, name, value) ==
    IF value = NoRaw
    THEN _del_header_no_rebuild(d, name)
    ELSE _update_header_from_raw_header(
             [d EXCEPT !.raw_headers = dict_set(@, name, value)], name, value)

(* SddpDatagram._set_header_no_rebuild *)
_set_header_no_rebuild(d, name, value) ==
    IF value = NoValue
    THEN _del_header_no_rebuild(d, name)
    ELSE [d EXCEPT !.headers = dict_set(@, name, value),
                   !.raw_headers = dict_set(@, name, json_dumps(value))]

(* SddpDatagram._update_no_rebuild with the items of a mapping. *)
RECURSIVE _update_no_rebuild(_, _)
_update_no_rebuild(d, items) ==
    IF items = << >>
    THEN d
    ELSE _update_no_rebuild(_set_header_no_rebuild(d, items[1][1], items[1][2]),
                           Tail(items))

(* SddpDatagram._update_raw_headers_no_rebuild with the items of a mapping. *)
RECURSIVE _update_raw_headers_no_rebuild(_, _)
_update_raw_headers_no_rebuild(d, items) ==
    IF items = << >>
    THEN d
    ELSE _update_raw_headers_no_rebuild(
             _set_raw_header_no_rebuild(d, items[1][1], items[1][2]), Tail(items))

(* SddpDatagram._clear_decoded_headers_no_rebuild *)
_clear_decoded_headers_no_rebuild(d) ==
    [d EXCEPT
       !.raw_headers = [l \in DOMAIN d.raw_headers \ DOMAIN d.headers |->
                           d.raw_headers[l]],
       !.headers = EmptyDict]

(* The setter of SddpDatagram.raw_data: the datagram afterwards, and *)
(* whether the IndexError of statement_and_remainder[1] was raised,  *)
(* after the raw data and the statement line were assigned.          *)
raw_data_set(d, value) ==
    LET parts == split_bytes_at_lf_or_crlf(value)
        d1 == [d EXCEPT !.raw_data = value, !.statement_line = parts[1]]
        x == parse_http_headers(parts[2])
    IN  IF Len(parts) < 2
        THEN [d |-> d1, raised |-> TRUE]
        ELSE [d |-> _rebuild_headers([d1 EXCEPT !.raw_headers = x.headers,
                                               !.body = x.body]),
              raised |-> FALSE]

(* The fields of a datagram before __init__ has filled them. *)
NewDatagram ==
    [raw_data |-> << >>, statement_line |-> << >>, raw_headers |-> EmptyDict,
     headers |-> EmptyDict, body |-> << >>]

(* SddpDatagram(statement=..., headers=..., body=...) *)
SddpDatagram(statement, headers, body) ==
    _rebuild_raw_data(
        _update_no_rebuild([NewDatagram EXCEPT !.statement_line = statement,
                                              !.body = body],
                          headers))

(* SddpDatagram.__eq__ *)
datagram_eq(a, b) ==
    /\ a.statement_line = b.statement_line
    /\ dict_eq(a.raw_headers, b.raw_headers)
    /\ a.body = b.body

(***************************************************************************)
(* DatagramSpec: one datagram, constructed from fields or from raw bytes,  *)
(* and the methods that change it.  probe.raised tells that the last       *)
(* method raised.                                                          *)
(***************************************************************************)
HeaderNames == {"X", "x", "Y"}

HeaderValues == {PyValue("int", "1"), PyValue("str", "1")}

RawHeaderValues == {"1", "\"1\"", "zz"}

Statements == {<< >>, <<Token("text", "S", "")>>}

Bodies == {<< >>, <<Token("text", "body", "")>>}

(* The mappings given to the constructor, to update and to the headers *)
(* setter, and those given to update_raw_headers and to the            *)
(* raw_headers setter, as the sequences of their items.                *)
Mappings ==
    {<< >>} \cup {<<<<n, v>>>> : n \in HeaderNames, v \in HeaderValues}
            \cup {<<<<"Y", PyValue("int", "1")>>, <<"x", PyValue("str", "1")>>>>}

RawMappings ==
    {<< >>} \cup {<<<<n, v>>>> : n \in HeaderNames, v \in RawHeaderValues}

(* Raw bytes a datagram is made of: canonical ones, line feeds alone as   *)
(* line ends, headers out of order, a body, a body without headers, and a *)
(* statement line without a line end.                                     *)
RawInputs ==
    LET S == <<Token("text", "S", "")>>
        body == <<Token("text", "body", "")>>
    IN  {S \o CRLF \o encode_http_header("X", "1"),
         S \o <<LF>> \o <<Token("hdr", "X", "1"), LF>>,
         S \o CRLF \o encode_http_header("x", "1") \o encode_http_header("Y", "zz"),
         S \o CRLF \o encode_http_header("X", "\"1\"") \o CRLF \o body,
         S \o CRLF \o CRLF \o body,
         S}

DatagramInit ==
    /\ Constructed
    /\ NoSearch
    /\ NoServer
    /\ \/ \E st \in Statements, items \in Mappings, body \in Bodies :
             probe = [of |-> "datagram", raised |-> FALSE,
                      d |-> SddpDatagram(st, items, body)]
       \/ \E raw \in RawInputs :
             /\ ~raw_data_set(NewDatagram, raw).raised
             /\ probe = [of |-> "datagram", raised |-> FALSE,
                         d |-> raw_data_set(NewDatagram, raw).d]

(* A method has changed the datagram into d. *)
DatagramBecomes(d) ==
    /\ probe.of = "datagram"
    /\ probe' = [probe EXCEPT !.d = d, !.raised = FALSE]
    /\ UNCHANGED <<sddp_socket, datagram_subscribers, subscriber, main_pc,
                   start_k, stop_called, dependents_done, external_called,
                   sub_pc, ndatagrams, obs, received, search, now, server>>

(* set_header, set_raw_header, del_header *)
SetHeader(name, value) ==
    DatagramBecomes(_rebuild_raw_data(_set_header_no_rebuild(probe.d, name, value)))

SetRawHeader(name, value) ==
    DatagramBecomes(
        _rebuild_raw_data(_set_raw_header_no_rebuild(probe.d, name, value)))

DelHeader(name) ==
    DatagramBecomes(_rebuild_raw_data(_del_header_no_rebuild(probe.d, name)))

(* update, update_raw_headers *)
Update(items) ==
    DatagramBecomes(_rebuild_raw_data(_update_no_rebuild(probe.d, items)))

UpdateRawHeaders(items) ==
    DatagramBecomes(
        _rebuild_raw_data(_update_raw_headers_no_rebuild(probe.d, items)))

(* clear_headers, clear_decoded_headers *)
ClearHeaders ==
    DatagramBecomes(
        _rebuild_raw_data([probe.d EXCEPT !.headers = EmptyDict,
                                          !.raw_headers = EmptyDict]))

ClearDecodedHeaders ==
    DatagramBecomes(
        _rebuild_raw_data(_clear_decoded_headers_no_rebuild(probe.d)))

(* The setter of headers, with None or with a mapping. *)
AssignHeaders(none, items) ==
    LET d == _clear_decoded_headers_no_rebuild(probe.d)
    IN  DatagramBecomes(IF none THEN d
                        ELSE _rebuild_raw_data(_update_no_rebuild(d, items)))

(* The setter of raw_headers, with None or with a mapping. *)
AssignRawHeaders(none, items) ==
    DatagramBecomes(
        _rebuild_raw_data(
            IF none
            THEN [probe.d EXCEPT !.headers = EmptyDict,
                                 !.raw_headers = EmptyDict]
            ELSE _update_raw_headers_no_rebuild(
                     [probe.d EXCEPT !.raw_headers = EmptyDict], items)))

(* The setters of statement_line and of body. *)
AssignStatementLine(value) ==
    DatagramBecomes(_rebuild_raw_data([probe.d EXCEPT !.statement_line = value]))

AssignBody(value) ==
    DatagramBecomes(_rebuild_raw_data([probe.d EXCEPT !.body = value]))

(* The setter of raw_data, with bytes value. *)
AssignRawData(value) ==
    /\ probe.of = "datagram"
    /\ probe' = [probe EXCEPT !.d = raw_data_set(probe.d, value).d,
                              !.raised = raw_data_set(probe.d, value).raised]
    /\ UNCHANGED <<sddp_socket, datagram_subscribers, subscriber, main_pc,
                   start_k, stop_called, dependents_done, external_called,
                   sub_pc, ndatagrams, obs, received, search, now, server>>

DatagramNext ==
    \/ \E n \in HeaderNames, v \in HeaderValues \cup {NoValue} : SetHeader(n, v)
    \/ \E n \in HeaderNames, v \in RawHeaderValues \cup {NoRaw} :
          SetRawHeader(n, v)
    \/ \E n \in HeaderNames : DelHeader(n)
    \/ \E items \in Mappings : Update(items)
    \/ \E items \in RawMappings : UpdateRawHeaders(items)
    \/ ClearHeaders
    \/ ClearDecodedHeaders
    \/ \E none \in BOOLEAN, items \in Mappings : AssignHeaders(none, items)
    \/ \E none \in BOOLEAN, items \in RawMappings : AssignRawHeaders(none, items)
    \/ \E st \in Statements : AssignStatementLine(st)
    \/ \E body \in Bodies : AssignBody(body)
    \/ \E raw \in RawInputs : AssignRawData(raw)

DatagramSpec == DatagramInit /\ [][DatagramNext]_vars

(***************************************************************************)
(* DecodeSpec: an engine with one binding whose start() has succeeded and  *)
(* every subscriber task, receiving the bytes of datagrams.                *)
(***************************************************************************)

(* Bytes a peer sends: a statement line with a header, and a statement *)
(* line alone with no line end.                                        *)
DecodeInputs ==
    LET S == <<Token("text", "S", "")>>
    IN  {S \o CRLF \o encode_http_header("X", "1"), S}

(* datagram_received letting the exception of the decoding go on. *)
socket_datagram_received_propagates(subs, S, item, data, raising) ==
    IF raw_data_set(NewDatagram, data).raised
    THEN [S |-> S, raised |-> TRUE]
    ELSE [S |-> [s \in Subscribers |->
                    IF s \in subs \ raising
                    THEN on_datagram(S[s], max_queue_size(s), item) ELSE S[s]],
          raised |-> FALSE]

(* datagram_received leaving its loop at the first subscriber that raises. *)
socket_datagram_received_stops_at_raise(subs, S, item, data, raising) ==
    IF raw_data_set(NewDatagram, data).raised
    THEN [S |-> S, raised |-> FALSE]
    ELSE [S |-> [s \in Subscribers |->
                    IF s \in subs /\ \A r \in subs : r <= s => r \notin raising
                    THEN on_datagram(S[s], max_queue_size(s), item) ELSE S[s]],
          raised |-> FALSE]

(* SddpSocket.datagram_received with the bytes data, where on_datagram of *)
(* the subscribers in raising raises: SddpDatagram(raw_data=data) inside  *)
(* the outer try, the loop over list(self.datagram_subscribers) with its  *)
(* own try around each on_datagram. Both handlers catch BaseException and *)
(* log, so nothing is raised to the caller.                               *)
socket_datagram_received(subs, S, item, data, raising) ==
    IF raw_data_set(NewDatagram, data).raised
    THEN [S |-> S, raised |-> FALSE]
    ELSE [S |-> [s \in Subscribers |->
                    IF s \in subs \ raising
                    THEN on_datagram(S[s], max_queue_size(s), item) ELSE S[s]],
          raised |-> FALSE]

(* _SddpSocketProtocol.datagram_received: an exception of the engine's *)
(* datagram_received completes the engine with it.                     *)
protocol_datagram_received(E, raised) ==
    IF raised THEN set_final_exception(E, FatalError) ELSE E

(* The transport of binding k has read the bytes data from its socket. *)
BytesReceived(k, data, raising) ==
    /\ sddp_socket.tstate[k] = "open"
    /\ sddp_socket.sock[k] = "open"
    /\ ndatagrams < MaxDatagrams
    /\ ndatagrams' = ndatagrams + 1
    /\ received' = Append(received, [b |-> k, content |-> data, raising |-> raising])
    /\ LET r == socket_datagram_received(datagram_subscribers, subscriber,
                                         Datagram(k, ndatagrams + 1), data, raising)
       IN  /\ subscriber' = r.S
           /\ sddp_socket' = protocol_datagram_received(sddp_socket, r.raised)
    /\ UNCHANGED <<datagram_subscribers, main_pc, start_k, stop_called,
                   dependents_done, external_called, sub_pc, obs>>

DecodeNext ==
    /\ \/ \E k \in Bindings, data \in DecodeInputs, raising \in {{}, {1}} :
             BytesReceived(k, data, raising)
       \/ \E k \in Bindings : ErrorReceived(k)
       \/ \E s \in Subscribers : SubscriberNext(s)
    /\ UNCHANGED <<search, now, probe, server>>

DecodeSpec == ChannelInit /\ [][DecodeNext]_vars

(***************************************************************************)
(* StartSpec: start() of a server, from its construction to the body of    *)
(* the scope or to the failure of start(), with the tasks finish_start     *)
(* creates.                                                                *)
(***************************************************************************)
ServerStartInit ==
    /\ Constructed
    /\ NoSearch
    /\ NoProbe
    /\ \E ai \in {0, 1}, adv \in {a \in Advertisements : a.From = ""} :
           server = SddpServer(TRUE, ai, adv, 0)

(* start() resumes with the last transport or goes on with another        *)
(* binding; when it reaches the body, finish_start has created the tasks. *)
ServerStartResume(ok) ==
    /\ StartResume(ok)
    /\ server' = IF main_pc' = "body" THEN finish_start(server) ELSE server
    /\ UNCHANGED <<search, now, probe>>

(* start() resumes with the last transport and finish_start raises after *)
(* it has created the tasks: set_final_exception, then wait_for_done(),  *)
(* whose finally clause runs wait_for_dependents_done, then the raise.   *)
ServerFinishStartFails ==
    /\ main_pc = "creating"
    /\ sddp_socket.tstate[start_k] # "new"
    /\ start_k = sddp_socket.nbind
    /\ sddp_socket' = set_final_exception(
                          [sddp_socket EXCEPT !.transport[start_k] = TRUE],
                          StartError)
    /\ start_k' = 0
    /\ OwnerContinues(wait_for_dependents_done(
                          [finish_start(server) EXCEPT !.after = "start_failed"], 1))
    /\ UNCHANGED <<datagram_subscribers, subscriber, stop_called, external_called,
                   sub_pc, ndatagrams, obs, received, search, now, probe>>

StartNext ==
    \/ /\ \/ \E n \in 0..MaxBindings, b \in BOOLEAN, e \in BOOLEAN :
                StartBegin(n, b, e)
          \/ \E k \in Bindings : ConnectionMade(k)
          \/ \E k \in Bindings : ErrorReceived(k)
          \/ \E exc \in {NoExc, ExternalError} : ExternalSetFinal(exc)
          \/ \E k \in Bindings : ConnectionLost(k)
       /\ UNCHANGED <<search, now, probe, server>>
    \/ \E ok \in BOOLEAN : ServerStartResume(ok)
    \/ ServerFinishStartFails
    \/ \E t \in {"collector", "responder"} : ReceiverRuns(t)
    \/ \E timeout \in BOOLEAN : AdvertiserRuns(timeout)
    \/ \E t \in Tasks : TaskCancelled(t)
    \/ DependentsResume

StartSpec == ServerStartInit /\ [][StartNext]_vars

(***************************************************************************)
(* IsolationSpec: two engines in one process, each with one binding and    *)
(* its start() done.  sddp_socket is the engine the subscribers register   *)
(* on; probe holds the other engine.  datagram_subscribers is an attribute *)
(* of the class SddpSocket, assigned once in the class body and never in   *)
(* __init__: it is one set for both engines.                               *)
(***************************************************************************)

(* Binding k of the other engine. *)
OtherBinding(k) == MaxBindings + k

IsolationInit ==
    /\ sddp_socket = [final_result |-> Unset,
                      nbind |-> 1,
                      sock |-> [k \in Bindings |-> IF k = 1 THEN "open" ELSE "none"],
                      transport |-> [k \in Bindings |-> k = 1],
                      tstate |-> [k \in Bindings |-> IF k = 1 THEN "open" ELSE "none"]]
    /\ probe = [of |-> "engine", E |-> sddp_socket]
    /\ datagram_subscribers = {}
    /\ subscriber = [s \in Subscribers |-> NewSubscriber]
    /\ main_pc = "body"
    /\ start_k = 0
    /\ stop_called = FALSE
    /\ dependents_done = FALSE
    /\ external_called = FALSE
    /\ sub_pc = [s \in Subscribers |-> "idle"]
    /\ ndatagrams = 0
    /\ obs = [s \in Subscribers |-> NewObs]
    /\ received = << >>
    /\ NoSearch
    /\ NoServer

(* _SddpSocketProtocol.datagram_received of the other engine's binding k: *)
(* its datagram_received goes through self.datagram_subscribers.          *)
OtherDatagramReceived(k) ==
    /\ probe.E.tstate[k] = "open"
    /\ probe.E.sock[k] = "open"
    /\ ndatagrams < MaxDatagrams
    /\ ndatagrams' = ndatagrams + 1
    /\ received' = Append(received, [b |-> OtherBinding(k), content |-> Opaque])
    /\ subscriber' = datagram_received(datagram_subscribers, subscriber,
                                       Datagram(OtherBinding(k), ndatagrams + 1))
    /\ UNCHANGED <<sddp_socket, datagram_subscribers, main_pc, start_k,
                   stop_called, dependents_done, external_called, sub_pc, obs,
                   search, now, probe, server>>

(* stop() of the other engine. *)
OtherStop ==
    /\ \E k \in Bindings : probe.E.transport[k]
    /\ probe' = [probe EXCEPT !.E = stop(@)]
    /\ UNCHANGED <<sddp_socket, datagram_subscribers, subscriber, main_pc, start_k,
                   stop_called, dependents_done, external_called, sub_pc,
                   ndatagrams, obs, received, search, now, server>>

(* error_received of the other engine. *)
OtherErrorReceived(k) ==
    /\ probe.E.tstate[k] = "open"
    /\ subscriber' = notify_end_of_stream(datagram_subscribers, subscriber, OsError)
    /\ probe' = [probe EXCEPT !.E = error_received(@, OsError)]
    /\ ObserveMark
    /\ UNCHANGED <<sddp_socket, datagram_subscribers, main_pc, start_k,
                   stop_called, dependents_done, external_called, sub_pc,
                   ndatagrams, received, search, now, server>>

(* connection_lost of the other engine, after its close(). *)
OtherConnectionLost(k) ==
    /\ probe.E.tstate[k] = "closing"
    /\ subscriber' = notify_end_of_stream(datagram_subscribers, subscriber, NoExc)
    /\ probe' = [probe EXCEPT !.E = connection_lost(@, k, NoExc)]
    /\ ObserveMark
    /\ UNCHANGED <<sddp_socket, datagram_subscribers, main_pc, start_k,
                   stop_called, dependents_done, external_called, sub_pc,
                   ndatagrams, received, search, now, server>>

IsolationNext ==
    \/ /\ \/ BodyStop
          \/ \E k \in Bindings : DatagramReceived(k)
          \/ \E k \in Bindings : ConnectionLost(k)
          \/ \E s \in Subscribers : SubscriberNext(s)
       /\ UNCHANGED <<search, now, probe, server>>
    \/ \E k \in Bindings : OtherDatagramReceived(k)
    \/ OtherStop
    \/ \E k \in Bindings : OtherErrorReceived(k)
    \/ \E k \in Bindings : OtherConnectionLost(k)

IsolationSpec == IsolationInit /\ [][IsolationNext]_vars

(***************************************************************************)
(* CancelSpec: the server of ShutdownSpec whose body may also call         *)
(* wait_for_dependents_done() itself, so that the tasks are cancelled      *)
(* while the engine is running.                                            *)
(***************************************************************************)

(* The body awaits wait_for_dependents_done() and goes on in the body *)
(* when it has returned.                                              *)
BodyWaitForDependentsDone ==
    /\ main_pc = "body"
    /\ \E t \in Tasks : server.ref[t]
    /\ OwnerContinues(wait_for_dependents_done(
                          [server EXCEPT !.after = "body"], 1))
    /\ UNCHANGED <<sddp_socket, datagram_subscribers, subscriber, start_k,
                   stop_called, external_called, sub_pc, ndatagrams, obs,
                   received, search, now, probe>>

CancelNext ==
    \/ ShutdownNext
    \/ BodyWaitForDependentsDone

CancelSpec == ShutdownInit /\ [][CancelNext]_vars

(***************************************************************************)
(* Properties.                                                             *)
(***************************************************************************)
Done(E) == E.final_result # Unset

(* Binding k holds a transport that has not been closed. *)
HoldsOpenTransport(E, k) == E.transport[k] /\ E.tstate[k] = "open"

(* No transport object of any binding is open, no binding has a socket. *)
AllClosed(E) ==
    \A k \in 1..E.nbind :
        /\ E.tstate[k] \notin {"new", "open"}
        /\ ~E.transport[k]
        /\ E.sock[k] # "open"

IsSuffix(a, b) ==
    /\ Len(a) <= Len(b)
    /\ SubSeq(b, Len(b) - Len(a) + 1, Len(b)) = a

(* C1: the engine's final_result goes from unset to one outcome and never *)
(* changes afterwards, whatever sets it again.                            *)
C1_FinalResultSetOnce ==
    [][Done(sddp_socket) =>
         sddp_socket'.final_result = sddp_socket.final_result]_vars

(* C1 witness: the engine failed with a transport error and a later      *)
(* connection_lost, which sets final_result again, has been delivered.   *)
C1_Witness ==
    /\ sddp_socket.final_result = OsError
    /\ \E k \in Bindings : sddp_socket.tstate[k] = "lost"

(* C2: whenever the engine's final_result is set, no binding holds an open *)
(* transport or an open socket.                                            *)
C2_DoneImpliesBindingsClosed ==
    Done(sddp_socket) =>
        \A k \in 1..sddp_socket.nbind :
            /\ ~HoldsOpenTransport(sddp_socket, k)
            /\ sddp_socket.sock[k] # "open"

(* C3: once the engine's final_result is set, no subscriber is added to *)
(* the engine's subscriber set.                                         *)
C3_NoSubscriberAddedWhenDone ==
    [][Done(sddp_socket) => datagram_subscribers' \subseteq datagram_subscribers]_vars

(* C4: a transport error reported on a binding sets final_result to that  *)
(* error if it was unset, leaves every transport and socket of every      *)
(* binding closed, and marks every registered subscriber that was not yet *)
(* at end-of-stream as at end-of-stream with that error.                  *)
TransportErrorReported(exc) ==
    \/ exc = OsError /\ \E k \in Bindings : ErrorReceived(k)
    \/ exc = FatalError /\ \E k \in Bindings :
           ConnectionLost(k) /\ sddp_socket.tstate[k] = "failing"

C4_TransportErrorIsTerminal ==
    [][\A exc \in TransportErrors :
         TransportErrorReported(exc) =>
            /\ ~Done(sddp_socket) => sddp_socket'.final_result = exc
            /\ Done(sddp_socket')
            /\ AllClosed(sddp_socket')
            /\ \A s \in datagram_subscribers :
                  (~subscriber[s].eos /\ subscriber[s].final_result = Unset)
                     => subscriber'[s].eos /\ subscriber'[s].eos_exc = exc]_vars

(* C5: after a successful start(), stop() closes every transport; the     *)
(* clean connection loss that follows sets final_result to success and    *)
(* marks every registered subscriber end-of-stream without an error; and  *)
(* a wait_for_done() called after stop() returns, having run              *)
(* wait_for_dependents_done().                                            *)
CleanLossAfterStop ==
    /\ stop_called
    /\ ~Done(sddp_socket)
    /\ \E k \in Bindings : ConnectionLost(k) /\ sddp_socket.tstate[k] = "closing"

C5_StopAndWaitReturns ==
    /\ [][BodyStop =>
            \A k \in 1..sddp_socket.nbind :
               sddp_socket'.tstate[k] \notin {"new", "open"}
               /\ ~sddp_socket'.transport[k]]_vars
    /\ [][CleanLossAfterStop =>
            /\ sddp_socket'.final_result = Ok
            /\ \A s \in datagram_subscribers :
                  subscriber'[s].eos /\ subscriber'[s].eos_exc = NoExc]_vars
    /\ [](main_pc = "waited" => dependents_done)
    /\ ((stop_called /\ main_pc = "waiting") ~> (main_pc = "waited"))

(* C5 witness: stop() was called, the engine ended with success, the     *)
(* registered subscriber is at end-of-stream and wait_for_done returned. *)
C5_Witness ==
    /\ stop_called
    /\ main_pc = "waited"
    /\ sddp_socket.final_result = Ok
    /\ 1 \in datagram_subscribers
    /\ subscriber[1].eos
    /\ obs[1].marked

(* C6: a received datagram is put in the queue of every registered        *)
(* subscriber that is not at end-of-stream and has room; a subscriber     *)
(* whose queue is full keeps its queue and its end-of-stream flag; the    *)
(* engine's final_result does not change and no task is made to wait.     *)
C6_DeliveryIsPerSubscriber ==
    [][\A k \in Bindings :
         DatagramReceived(k) =>
            /\ sddp_socket' = sddp_socket
            /\ sub_pc' = sub_pc
            /\ \A s \in Subscribers :
                  LET sb == subscriber[s]
                  IN  IF /\ s \in datagram_subscribers
                         /\ ~sb.eos
                         /\ sb.final_result = Unset
                         /\ Len(sb.queue) < max_queue_size(s)
                      THEN subscriber'[s] =
                             [sb EXCEPT !.queue =
                                Append(sb.queue, Datagram(k, ndatagrams + 1))]
                      ELSE subscriber'[s] = sb]_vars

(* C6 witness: the second datagram was dropped for subscriber 1, whose   *)
(* queue was full, and delivered to subscriber 2.                        *)
C6_Witness ==
    /\ datagram_subscribers = {1, 2}
    /\ subscriber[1].queue = <<Datagram(1, 1)>>
    /\ subscriber[2].queue = <<Datagram(1, 1), Datagram(1, 2)>>
    /\ ~subscriber[1].eos
    /\ sddp_socket.final_result = Unset

(* C7: the datagrams that were in a subscriber's queue when the engine    *)
(* marked it end-of-stream are returned by receive() in queue order, all  *)
(* of them before a receive() reports end-of-stream.                      *)
C7_QueueDrainedBeforeEos ==
    \A s \in Subscribers :
        obs[s].marked =>
            LET m == obs[s].at_mark
            IN  \E j \in 0..Len(m) :
                  /\ IsSuffix(SubSeq(m, 1, j), obs[s].got)
                  /\ SubSeq(m, j + 1, Len(m)) = DatagramsOf(subscriber[s].queue)
                  /\ obs[s].eos_reported => j = Len(m)

(* C7 witness: subscriber 1 was marked with a full queue, subscriber 2    *)
(* with room for the wake-up entry; both have got what was queued and     *)
(* then end-of-stream.                                                    *)
C7_Witness ==
    /\ \A s \in {1, 2} :
          /\ obs[s].marked
          /\ obs[s].eos_reported
          /\ obs[s].at_mark = <<Datagram(1, 1)>>
          /\ obs[s].got = <<Datagram(1, 1)>>

(* C8: a subscriber marked end-of-stream with an error raises that error *)
(* from one receive() call only.                                         *)
C8_ErrorRaisedOnce ==
    \A s \in Subscribers : obs[s].raised <= 1

(* C9: once a subscriber is at end-of-stream no datagram is added to its *)
(* queue, and once a receive() has reported end-of-stream no receive()   *)
(* returns a datagram.                                                   *)
C9_NothingAfterEos ==
    [][\A s \in Subscribers :
         /\ subscriber[s].eos =>
               Len(DatagramsOf(subscriber'[s].queue))
                  <= Len(DatagramsOf(subscriber[s].queue))
         /\ obs[s].eos_reported => obs'[s].got = obs[s].got]_vars

(* C9 witness: subscriber 2 got the first datagram and was at             *)
(* end-of-stream, still registered, when the second one arrived, which is *)
(* not in its queue; subscriber 1 got a datagram, then a receive()        *)
(* reported end-of-stream by raising the engine's error, and a later      *)
(* receive() returned no datagram.                                        *)
C9_Witness ==
    /\ 2 \in datagram_subscribers
    /\ subscriber[2].eos
    /\ obs[2].got = <<Datagram(1, 1)>>
    /\ ndatagrams = 2
    /\ DatagramsOf(subscriber[2].queue) = << >>
    /\ obs[1].eos_reported
    /\ obs[1].raised = 2
    /\ obs[1].got = <<Datagram(1, 1)>>

(* C10: once the engine has terminated and none of its transports has a  *)
(* callback left to deliver, no registered subscriber is left suspended  *)
(* in receive() on an empty queue, where nothing would wake it.          *)
C10_NoSubscriberLeftWaiting ==
    (/\ Done(sddp_socket)
     /\ \A k \in Bindings : sddp_socket.tstate[k] \in {"none", "lost"})
    => \A s \in datagram_subscribers :
          ~(sub_pc[s] = "waiting" /\ subscriber[s].queue = << >>)

(* The datagrams received on binding b, in order of arrival. *)
ReceivedOn(b) ==
    LET idx == SelectSeq([i \in 1..Len(received) |-> i],
                         LAMBDA i : received[i].b = b)
    IN  [j \in 1..Len(idx) |-> Datagram(b, idx[j])]

RECURSIVE IsSubsequence(_, _)
IsSubsequence(a, b) ==
    IF a = << >> THEN TRUE
    ELSE IF b = << >> THEN FALSE
    ELSE IF Head(a) = Head(b) THEN IsSubsequence(Tail(a), Tail(b))
    ELSE IsSubsequence(a, Tail(b))

(* C11: for every subscriber and every binding, the datagrams of that     *)
(* binding that receive() has returned, in the order it returned them,    *)
(* are a subsequence of the datagrams the engine received on that binding *)
(* (none reordered, none twice, none that was not received).              *)
C11_DeliveredIsSubsequence ==
    \A s \in Subscribers : \A b \in Bindings :
        IsSubsequence(SelectSeq(obs[s].got, LAMBDA x : x.b = b), ReceivedOn(b))

(* C11 witness: two datagrams arrived on binding 1; subscriber 2 got both *)
(* in order of arrival, subscriber 1, whose queue was full for the second, *)
(* got the first only.                                                    *)
C11_Witness ==
    /\ Len(received) = 2
    /\ received[1].b = 1
    /\ received[2].b = 1
    /\ obs[2].got = <<Datagram(1, 1), Datagram(1, 2)>>
    /\ obs[1].got = <<Datagram(1, 1)>>
    /\ subscriber[1].queue = << >>
    /\ ~subscriber[1].eos

(* What the contract of the response iteration accepts: the statement line *)
(* is "SDDP/<M>.<m> <code> <status>" with M >= 1, the code is 200 or error *)
(* responses are included, and every name of the filter names a header     *)
(* whose decoded value is the filter's value, a number never being a       *)
(* string or a boolean.                                                    *)
IsNumber(v) == v.t \in {"int", "float"}

SameValue(a, b) ==
    \/ a = b
    \/ IsNumber(a) /\ IsNumber(b) /\ a.v = b.v

Acceptable(dg, include_error_responses, filter_headers) ==
    /\ response_statement_match(dg)
    /\ IntOf(dg.major) >= 1
    /\ include_error_responses \/ IntOf(dg.code) = 200
    /\ \/ ~filter_headers.set
       \/ \A f \in filter_headers.items :
              /\ dg.hname # ""
              /\ Lower(dg.hname) = Lower(f.name)
              /\ json_loads(dg.hraw) # NoValue
              /\ SameValue(json_loads(dg.hraw), f.value)

(* C18: a received datagram is yielded exactly when its statement line has *)
(* the shape SDDP/<M>.<m> <code> <status> with M >= 1, its code is 200 or  *)
(* error responses are included, and no filter is set or every filter      *)
(* entry names a header whose decoded value is exactly the filter's value. *)
C18_YieldedIffAcceptable ==
    (probe.of = "response" /\ probe.done) =>
        (probe.yielded <=> Acceptable(probe.dg, probe.include_error_responses,
                                      probe.filter_headers))

(* What the contract of the responder asks for: a SEARCH line with a      *)
(* pattern, protocol HTTP or SDDP and a version with major >= 1.          *)
IsSearch(rq) ==
    /\ rq.verb = "SEARCH"
    /\ rq.sp1 >= 1
    /\ rq.pattern # ""
    /\ rq.sp2 >= 1
    /\ rq.proto \in {"HTTP", "SDDP"}
    /\ IntOf(rq.major) >= 1
    /\ IntOf(rq.minor) >= 0

(* C20: for every SEARCH with protocol HTTP or SDDP and major >= 1,       *)
(* whatever its pattern, the responder sends exactly one response, on the *)
(* binding the request came in on, to its source address, with statement  *)
(* line <protocol>/<M>.<m> 200 OK and the advertisement's headers; for    *)
(* any other datagram it sends nothing.                                   *)
C20_OneResponsePerSearch ==
    (probe.of = "request" /\ probe.done) =>
        IF IsSearch(probe.rq)
        THEN /\ Len(probe.sent) = 1
             /\ probe.sent[1].b = probe.b
             /\ probe.sent[1].to = probe.addr
             /\ probe.sent[1].statement =
                    <<probe.rq.proto, IntOf(probe.rq.major), IntOf(probe.rq.minor),
                      200, "OK">>
             /\ probe.sent[1].Type = probe.advertise_datagram.Type
             /\ probe.advertise_datagram.From # "" =>
                    probe.sent[1].From = <<probe.advertise_datagram.From, 0>>
        ELSE probe.sent = << >>

(* The search's scope has been left: __aexit__ has run, or __aenter__ has *)
(* raised.                                                                *)
SearchLeft == search.pc \in {"exited", "enter_failed"}

(* C12: on every way out of a search request's scope (the iteration       *)
(* completed, an exception, a cancellation, a break out of the loop, a    *)
(* failed entry) the subscriber is no longer in the engine's subscriber   *)
(* set, and from then on nothing is put in its queue.                     *)
C12_ExitDeregisters ==
    /\ [](SearchLeft => SearchSub \notin datagram_subscribers)
    /\ [][SearchLeft =>
            subscriber'[SearchSub].queue = subscriber[SearchSub].queue]_vars

(* C12 witness: the search's task was cancelled while it waited, and a *)
(* response arrived after the scope was left.                          *)
C12_Witness ==
    /\ search.pc = "exited"
    /\ search.error = Cancelled
    /\ Len(received) > search.exit_at
    /\ SearchSub \notin datagram_subscribers
    /\ DatagramsOf(subscriber[SearchSub].queue) = << >>

(* C13: a search request's subscriber whose scope was left without an     *)
(* exception, on an engine that did not end with a transport error, has   *)
(* its final_result completed with success, also when the iteration ended *)
(* because the deadline passed while it waited in receive().              *)
C13_VoluntaryTeardownSucceeds ==
    (/\ search.pc = "exited"
     /\ search.error = NoExc
     /\ sddp_socket.final_result \notin TransportErrors)
        => subscriber[SearchSub].final_result = Ok

(* C14: every SEARCH is sent with the subscriber already registered, and  *)
(* from the entry on every response that arrives while the subscriber has *)
(* not ended and its queue has room is put at the end of its queue.       *)
C14_RegisteredBeforeSend ==
    /\ [](search.sends > 0 => ~search.sent_unregistered)
    /\ [][(/\ ndatagrams' = ndatagrams + 1
           /\ search.pc \in {"iterating", "waiting", "done", "raised"}
           /\ subscriber[SearchSub].final_result = Unset
           /\ ~subscriber[SearchSub].eos
           /\ Len(subscriber[SearchSub].queue) < max_queue_size(SearchSub))
          => subscriber'[SearchSub].queue =
                Append(subscriber[SearchSub].queue,
                       Datagram(received'[ndatagrams'].b, ndatagrams'))]_vars

(* C14 witness: the SEARCH went out on every binding and two responses *)
(* are queued before the iteration has taken its first step.           *)
C14_Witness ==
    /\ search.pc = "iterating"
    /\ search.sends = MaxBindings
    /\ search.n = 0
    /\ now = 0
    /\ subscriber[SearchSub].queue = <<Datagram(2, 1), Datagram(1, 2)>>

(* C15: when a send of the SEARCH has failed during the entry, the entry *)
(* raises, the subscriber has been deregistered and its final_result     *)
(* completed by then, and the error raised is the error of a send.       *)
C15_SendFailureFailsEntry ==
    (search.pc # "new" /\ search.send_failed) =>
        /\ search.pc = "enter_failed"
        /\ SearchSub \notin datagram_subscribers
        /\ subscriber[SearchSub].final_result # Unset
        /\ search.error \in {OsError, AssertionFailed}

Iterating == search.pc \in {"iterating", "waiting"}

C19_ErrorAlwaysRaised == search.err_running => search.end = "none"

(* C19: after a transport error that ended the engine while the iteration *)
(* was running, the iteration does not complete on end-of-stream: it      *)
(* raises the engine's error, unless it completes before on the count or  *)
(* on the deadline.                                                       *)
C19_ErrorNotTakenForEos ==
    search.err_running =>
        /\ search.end # "eos"
        /\ search.pc = "raised" => search.error = sddp_socket.final_result
        /\ search.pc = "done" => search.end \in {"max", "deadline", "timeout"}

(* C19 witness: a response was queued when the transport error came; it *)
(* was yielded, and then the iteration raised the error.                *)
C19_Witness ==
    /\ search.err_running
    /\ search.pc = "raised"
    /\ search.error = OsError
    /\ Len(search.out) = 1

(* C21 as stated: a server constructed with respond_to_queries = False *)
(* sends no response to any SEARCH datagram it receives.               *)
C21_NoResponseWhenDisabled == ~server.respond_to_queries => server.sent = {}

(* C22: the server's advertise_datagram is never changed after            *)
(* construction: its statement line stays 'NOTIFY ALIVE SDDP/1.0' and no  *)
(* step of the collector, the responder or the advertiser changes its     *)
(* statement line or its headers, whatever was filled into the responses  *)
(* and advertisements emitted from it.                                    *)
C22_AdvertiseDatagramUnchanged ==
    /\ [](server.advertise_datagram.statement = "NOTIFY ALIVE SDDP/1.0")
    /\ [][server'.advertise_datagram = server.advertise_datagram]_vars

(* C22 witness: a server configured without a From header has sent a    *)
(* response and MaxRounds rounds of advertisements, each with the From  *)
(* of its binding filled in.                                            *)
C22_Witness ==
    /\ server.advertise_datagram.From = ""
    /\ \E r \in server.sent : r.dg.From = unicast_addr(r.dg.b)
    /\ server.rounds = MaxRounds
    /\ \A k \in Bindings, n \in 1..MaxRounds :
          \E a \in server.advertised :
              a.b = k /\ a.round = n /\ a.From = unicast_addr(k)

(* C23 as stated: when a notify handler has raised, so that the collector *)
(* task has failed, the engine's final_result eventually completes with   *)
(* an error.                                                              *)
C23_HandlerErrorFailsEngine ==
    (server.err.collector = HandlerError)
        ~> (sddp_socket.final_result \notin {Unset, Ok})

(* The advertisements of C24: statement line NOTIFY ALIVE SDDP/<M>.<m> *)
(* with one or more spaces between the words and M >= 1.               *)
IsAdvertisement(dg) ==
    /\ "verb" \in DOMAIN dg
    /\ dg.verb = "NOTIFY" /\ dg.pattern = "ALIVE" /\ dg.proto = "SDDP"
    /\ dg.sp1 >= 1 /\ dg.sp2 >= 1
    /\ IntOf(dg.major) >= 1 /\ IntOf(dg.minor) >= 0

(* The handler invocations due for the datagrams seen, in their order: *)
(* for each advertisement every registered handler, in registration    *)
(* order.                                                              *)
RECURSIVE HandlerCalls(_)
HandlerCalls(seen) ==
    IF seen = << >>
    THEN << >>
    ELSE LET n == seen[Len(seen)]
         IN  HandlerCalls(SubSeq(seen, 1, Len(seen) - 1)) \o
             (IF IsAdvertisement(received[n].content)
              THEN [h \in 1..Len(server.notify_handlers) |->
                      [handler |-> server.notify_handlers[h], n |-> n]]
              ELSE << >>)

(* C24: the collector takes the datagrams in arrival order; the handler  *)
(* invocations so far are the first ones of those due for the datagrams  *)
(* it has seen (each registered handler once per advertisement, in       *)
(* registration order, none for another statement line), all of them     *)
(* once the collector is back in receive(); invocations start one at a   *)
(* time, the one in progress being the last one started.                 *)
C24_HandlersInOrder ==
    /\ [](\A i, j \in 1..Len(server.seen) :
              i < j => server.seen[i] < server.seen[j])
    /\ [](LET due == HandlerCalls(server.seen)
          IN  /\ Len(server.calls) <= Len(due)
              /\ server.calls = SubSeq(due, 1, Len(server.calls))
              /\ server.task.collector = "waiting" => server.calls = due)
    /\ [](server.task.collector = "handler" =>
              server.calls[Len(server.calls)] =
                  [handler |-> server.notify_handlers[server.cur.h],
                   n |-> server.cur.n])
    /\ [][Len(server'.calls) <= Len(server.calls) + 1]_vars

(* C24 witness: MaxDatagrams advertisements have come, every one of the *)
(* MaxHandlers handlers has been called for each, and the collector is  *)
(* back in receive().                                                   *)
C24_Witness ==
    /\ Len(server.notify_handlers) = MaxHandlers
    /\ Len(server.calls) = MaxDatagrams * MaxHandlers
    /\ server.task.collector = "waiting"

(* C25: whenever wait_for_dependents_done is suspended in the await of a *)
(* task it has cancelled, it eventually returns, and once it has         *)
(* returned none of the collector, responder and advertiser tasks is     *)
(* still running: each has returned, failed or been cancelled, or was    *)
(* never created.                                                        *)
C25_ShutdownTerminates ==
    /\ [](dependents_done =>
              \A t \in Tasks : server.task[t] \in Terminal \cup {"none"})
    /\ (main_pc = "dependents") ~> dependents_done

(* C25 witness: wait_for_dependents_done has returned after it cancelled *)
(* the collector inside a notify handler, the responder blocked in       *)
(* receive() and the advertiser in its interval wait.                    *)
C25_Witness ==
    /\ dependents_done
    /\ \A t \in Tasks : ~server.ref[t]
    /\ server.task.collector = "cancelled"
    /\ server.task.responder = "cancelled"
    /\ server.task.advertiser = "returned"
    /\ server.cur.h > 0
    /\ server.rounds > 0

(* C26 as stated: once the server's scope has been left the server is   *)
(* stopped: final_result is done, every transport and socket is closed  *)
(* and the dependents have been awaited.                                *)
C26_ScopeExitStops ==
    main_pc = "exited" =>
        /\ Done(sddp_socket)
        /\ AllClosed(sddp_socket)
        /\ dependents_done

(* C27 as stated: parsing the bytes a datagram serializes to gives a *)
(* datagram equal to it (statement line, raw headers, body).         *)
C27_RoundTrip ==
    probe.of = "datagram" =>
        LET x == raw_data_set(NewDatagram, _rebuild_raw_data(probe.d).raw_data)
        IN  ~x.raised /\ datagram_eq(x.d, probe.d)

(* C28 as stated: every name of the decoded headers is a name of the raw *)
(* headers whose raw value JSON-decodes to the decoded value, and every  *)
(* raw header without a decoded one has a raw value that is not valid    *)
(* JSON.                                                                 *)
C28_DecodedRawCoherent ==
    probe.of = "datagram" =>
        LET d == probe.d
        IN  /\ \A l \in DOMAIN d.headers :
                  /\ l \in DOMAIN d.raw_headers
                  /\ json_loads(d.raw_headers[l].val) = d.headers[l].val
            /\ \A l \in DOMAIN d.raw_headers \ DOMAIN d.headers :
                  json_loads(d.raw_headers[l].val) = NoValue

(* C29 as stated: the raw data of a datagram is the serialization of its *)
(* statement line, raw headers and body.                                 *)
C29_RawDataCanonical ==
    probe.of = "datagram" =>
        probe.d.raw_data = _rebuild_raw_data(probe.d).raw_data

(* C30 as stated: a datagram that compares equal to one constructed from *)
(* fields has the same raw data.                                         *)
C30_EqualSerializeIdentically ==
    probe.of = "datagram" =>
        \A st \in Statements, items \in Mappings, body \in Bodies :
            LET e == SddpDatagram(st, items, body)
            IN  datagram_eq(probe.d, e) => probe.d.raw_data = e.raw_data

(* The bytes decode to a datagram: SddpDatagram(raw_data=data) returns. *)
WellFormed(data) == ~raw_data_set(NewDatagram, data).raised

(* C31: receiving bytes never completes the engine and marks no          *)
(* subscriber end-of-stream; bytes that fail to decode change no         *)
(* subscriber; bytes that decode, also after malformed ones, are         *)
(* appended to the queue of every registered subscriber that is open,    *)
(* has room and whose on_datagram does not raise, whatever on_datagram   *)
(* of the other subscribers does.                                        *)
C31_MalformedPacketNotFatal ==
    [][ndatagrams' = ndatagrams + 1 =>
          LET e == received'[ndatagrams']
              item == Datagram(e.b, ndatagrams')
          IN  /\ sddp_socket' = sddp_socket
              /\ \A s \in Subscribers :
                    /\ subscriber'[s].eos = subscriber[s].eos
                    /\ subscriber'[s].final_result = subscriber[s].final_result
              /\ ~WellFormed(e.content) => subscriber' = subscriber
              /\ WellFormed(e.content) =>
                    \A s \in datagram_subscribers \ e.raising :
                        (/\ ~subscriber[s].eos
                         /\ subscriber[s].final_result = Unset
                         /\ Len(subscriber[s].queue) < max_queue_size(s))
                        => subscriber'[s].queue = Append(subscriber[s].queue, item)]_vars

(* Malformed bytes were received, then well-formed ones for which        *)
(* on_datagram of subscriber 1 raised, and subscriber 2 has the latter   *)
(* in its queue while the engine runs.                                   *)
C31_Witness ==
    /\ Len(received) = 2
    /\ ~WellFormed(received[1].content)
    /\ WellFormed(received[2].content)
    /\ received[2].raising = {1}
    /\ datagram_subscribers = {1, 2}
    /\ sddp_socket.final_result = Unset
    /\ ~subscriber[2].eos
    /\ \E i \in 1..Len(subscriber[2].queue) :
          subscriber[2].queue[i] = Datagram(received[2].b, 2)

(* The bytes are a statement line alone: no line end, nothing after it. *)
StatementOnly(data) ==
    /\ Len(data) > 0
    /\ \A i \in 1..Len(data) : data[i].t = "text"

(* C40 as stated: received bytes that are a statement line only decode   *)
(* to a datagram with that statement line, no headers and an empty body, *)
(* and are put in the queue of every registered subscriber that is open  *)
(* and has room.                                                         *)
C40_StatementOnlyDelivered ==
    [][(ndatagrams' = ndatagrams + 1 /\ StatementOnly(received'[ndatagrams'].content)) =>
          LET e == received'[ndatagrams']
              item == Datagram(e.b, ndatagrams')
              x == raw_data_set(NewDatagram, e.content)
          IN  /\ ~x.raised
              /\ x.d.statement_line = e.content
              /\ x.d.raw_headers = EmptyDict
              /\ x.d.body = << >>
              /\ \A s \in datagram_subscribers \ e.raising :
                    (/\ ~subscriber[s].eos
                     /\ subscriber[s].final_result = Unset
                     /\ Len(subscriber[s].queue) < max_queue_size(s))
                    => subscriber'[s].queue = Append(subscriber[s].queue, item)]_vars

(* C32 as stated: a SEARCH line with one or more spaces after SEARCH and *)
(* one or more spaces before the protocol is answered exactly like the   *)
(* same line with single spaces.                                         *)
C32_SeveralSpacesAccepted ==
    (/\ probe.of = "request"
     /\ probe.done
     /\ probe.rq.sp1 >= 1
     /\ probe.rq.sp2 >= 1)
    => probe.sent = responder_handle([probe.rq EXCEPT !.sp1 = 1, !.sp2 = 1],
                                     probe.b, probe.addr, probe.advertise_datagram)

(* The From header an emission on binding k must carry for the          *)
(* configured advertisement adv.                                        *)
ExpectedFrom(adv, k) == IF adv.From = "" THEN unicast_addr(k) ELSE <<adv.From, 0>>

(* C33: with several bindings, every round of the advertiser has sent   *)
(* exactly one advertisement on each binding, to the multicast address, *)
(* and every advertisement and every search response carries the From   *)
(* of the configured advertisement when it has one and the unicast      *)
(* address of the binding it is emitted on otherwise.                   *)
C33_FromIsOwnBinding ==
    server.pc = "started" =>
        /\ \A a \in server.advertised :
              /\ a.to = 0
              /\ a.round \in 1..server.rounds
              /\ a.From = ExpectedFrom(server.advertise_datagram, a.b)
              /\ a.Type = server.advertise_datagram.Type
        /\ \A r \in 1..server.rounds, k \in 1..sddp_socket.nbind :
              Cardinality({a \in server.advertised : a.b = k /\ a.round = r}) = 1
        /\ \A x \in server.sent :
              /\ x.dg.b = received[x.n].b
              /\ x.dg.From = ExpectedFrom(server.advertise_datagram, x.dg.b)

(* C33 witness: a server with two bindings and no configured From has   *)
(* advertised on both and answered a search on each, after a round.     *)
C33_Witness ==
    /\ sddp_socket.nbind = 2
    /\ server.advertise_datagram.From = ""
    /\ server.rounds >= 1
    /\ \E a, b \in server.advertised :
          a.b = 1 /\ b.b = 2 /\ a.round = b.round /\ a.From # b.From
    /\ \E x, y \in server.sent :
          /\ x.dg.b = 1 /\ y.dg.b = 2 /\ x.dg.From # y.dg.From
          /\ x.n < y.n

(* C34: with advertise_interval <= 0 there is no advertiser task and no  *)
(* advertisement is ever sent; once final_result has completed no        *)
(* further advertisement is sent, and the advertiser task ends: its wait *)
(* between two rounds ends when final_result completes.                  *)
C34_AdvertiserFollowsFinalResult ==
    /\ [](server.advertise_interval <= 0 =>
              server.advertised = {} /\ server.task.advertiser = "none")
    /\ [][sddp_socket.final_result # Unset =>
              server'.advertised = server.advertised]_vars
    /\ (sddp_socket.final_result # Unset)
           ~> (server.task.advertiser \in Terminal \cup {"none"})

(* C34 witness: the advertiser has sent a round, final_result completed *)
(* while it waited, and it returned from its loop.                      *)
C34_Witness ==
    /\ server.advertise_interval > 0
    /\ server.rounds >= 1
    /\ server.advertised # {}
    /\ sddp_socket.final_result # Unset
    /\ server.task.advertiser = "returned"

(* start() has failed: it has raised to its caller. *)
StartFailed == main_pc = "start_failed"

(* No binding holds an open transport or an open socket, and no task of *)
(* the server is left running.                                          *)
CleanedUp ==
    /\ dependents_done
    /\ \A k \in Bindings :
          /\ sddp_socket.tstate[k] \notin {"new", "open"}
          /\ sddp_socket.sock[k] # "open"
    /\ \A t \in Tasks : server.task[t] \in Terminal \cup {"none"}

(* C35 as stated: when start() has failed, final_result is completed     *)
(* with the error start() raised, every transport and socket created so  *)
(* far is closed, and every task already launched has been cancelled and *)
(* awaited.                                                              *)
C35_StartFailureCleansUp ==
    StartFailed => sddp_socket.final_result = StartError /\ CleanedUp

(* C35 amended: when start() fails while final_result is not yet        *)
(* complete, final_result is completed with the error of start(), and   *)
(* when start() has raised with final_result holding that error every   *)
(* transport and socket is closed and every task launched has ended;    *)
(* when final_result was complete before the failure it keeps its       *)
(* outcome.                                                             *)
C35_StartFailureCleansUpIfRunning ==
    /\ [](StartFailed => sddp_socket.final_result # Unset)
    /\ []((StartFailed /\ sddp_socket.final_result = StartError) => CleanedUp)
    /\ [][(main_pc \in {"new", "creating"} /\ main_pc' \in {"start_failed", "dependents"})
            => sddp_socket'.final_result =
                   IF sddp_socket.final_result = Unset THEN StartError
                   ELSE sddp_socket.final_result]_vars

(* C35 witness: finish_start raised after it had created the tasks of a *)
(* server with two bindings and an advertiser; start() has raised.      *)
C35_Witness ==
    /\ StartFailed
    /\ sddp_socket.nbind = 2
    /\ sddp_socket.final_result = StartError
    /\ server.pc = "started"
    /\ server.advertise_interval > 0
    /\ \A t \in Tasks : server.task[t] \in Terminal

(* C36 as stated: a subscriber registered on one engine holds only       *)
(* datagrams received on that engine's bindings, and while its own scope *)
(* is open it is marked end-of-stream only when that engine has          *)
(* terminated: nothing the other engine receives or does changes it.     *)
C36_EnginesIsolated ==
    probe.of = "engine" =>
        \A s \in Subscribers :
            /\ \A i \in 1..Len(subscriber[s].queue) :
                  subscriber[s].queue[i] # NoneItem =>
                      subscriber[s].queue[i].b \in Bindings
            /\ (subscriber[s].eos /\ subscriber[s].final_result = Unset) =>
                  sddp_socket.final_result # Unset

(* C37 as stated: while the engine is running and subscriber s is        *)
(* registered with its scope open, whatever receive() calls were         *)
(* cancelled before, a datagram that is received is put in the queue of  *)
(* s when the queue has room, and no entry already queued is removed.    *)
C37_CancelledReceiveKeepsSubscriber ==
    [][\A s \in Subscribers :
          (/\ ndatagrams' = ndatagrams + 1
           /\ sddp_socket.final_result = Unset
           /\ s \in datagram_subscribers
           /\ sub_pc[s] \in {"active", "waiting"}
           /\ Len(subscriber[s].queue) < max_queue_size(s))
          => subscriber'[s].queue =
                 Append(subscriber[s].queue,
                        Datagram(received'[ndatagrams'].b, ndatagrams'))]_vars

(* C38 as stated: in every interleaving of stop() and the closing of the *)
(* transports with the responder and the advertiser, no server task has  *)
(* failed on the assertion of sendto that the binding's transport is     *)
(* still there.                                                          *)
C38_NoSendOnClosedBinding ==
    \A t \in Tasks : server.err[t] # AssertionFailed

(* C39 as stated: a cancellation delivered to the advertiser while it is *)
(* in its interval wait and final_result is not complete ends the task,  *)
(* and no advertisement is sent in that step.                            *)
C39_CancelEndsAdvertiser ==
    [][(/\ CancelPending("advertiser")
        /\ server.task.advertiser = "waiting"
        /\ sddp_socket.final_result = Unset
        /\ "advertiser" \notin server'.cancel)
       => /\ server'.task.advertiser \in Terminal
          /\ server'.advertised = server.advertised]_vars

====
